---- MODULE Spec2Model ----
(***************************************************************************)
(* A model of the hybrid message store of AiInternTask/Task1/database:     *)
(*   EmailStorage  (email_storage.py)  the relational store (SQLite),      *)
(*   VectorStore   (vector_store.py)   the FAISS index, its metadata       *)
(*                                     side-table and their two files,     *)
(*   EmailDB       (email_db.py)       the ingestion pipeline.             *)
(*                                                                         *)
(* Conventions.  Row ids are the positions of the rows in their table      *)
(* (AUTOINCREMENT, no row is ever deleted).  SQL NULL / Python None is     *)
(* NULL (0) for a row id, NoSlot (-1) for a slot id, NullStr for a string  *)
(* and the empty sequence for a record.  Address header values are         *)
(* sequences of one-character strings, so that split, strip and the        *)
(* regular expression of _parse_email_address are computed, not assumed.   *)
(***************************************************************************)
EXTENDS Integers, Sequences, FiniteSets, TLC

VARIABLES
    db,            \* the committed content of the SQLite file (all tables)
    now,           \* wall clock: CURRENT_TIMESTAMP / datetime.now()
    up,            \* TRUE while the process (and its VectorStore) is alive
    index,         \* VectorStore.index: the FAISS vectors, slot i at i+1
    metadata,      \* VectorStore.metadata['emails']: slot -> entry
    indexFile,     \* email_embeddings.index on disk
    metaFile,      \* email_metadata.json on disk
    tmpIndexFile,  \* email_embeddings.index.temp on disk
    tmpMetaFile,   \* email_metadata.json.temp on disk
    loadedSize,    \* history: index.ntotal when this instance was built
    issued,        \* history: slot ids returned by add_email, this instance
    unsaved,       \* history: those of them whose _save did not complete
    removed,       \* history: message ids passed to delete_email, this instance
    reinserted,    \* history: those of them add_email has indexed since
    last,          \* history: the last call, its arguments and its outcome
    answer,        \* history: the list the last call returned, if it was a read
    other,         \* the VectorStore object of a second request, and its history
    deleted        \* history: message ids for which a delete_email of any
                   \* instance returned a count above 0, not indexed since

vars == <<db, now, up, index, metadata, indexFile, metaFile, tmpIndexFile,
          tmpMetaFile, loadedSize, issued, unsaved, removed, reinserted, last,
          answer, other, deleted>>

memVars == <<index, metadata>>
diskVars == <<indexFile, metaFile, tmpIndexFile, tmpMetaFile>>
histVars == <<loadedSize, issued, unsaved, removed, reinserted>>

----------------------------------------------------------------------------
(* Bounds of the model. *)

\* calls of store_email in one behaviour
MaxCalls == 3
\* the k of a search ranges over 0..MaxK
MaxK == 3

(* Program constants. *)

\* VectorStore.dimension (384 in the source, 2 here: vectors are enumerated)
Dim == 2

NULL == 0
NoSlot == -1
NullStr == "<None>"
NoRecord == << >>

\* a local variable: Op applied to the value v, which is computed once
Bind(v, Op(_)) == Op(v)

----------------------------------------------------------------------------
(* Strings as character sequences: str.strip, str.split, re.match. *)

RECURSIVE LStrip(_)
LStrip(s) == IF s # << >> /\ Head(s) = " " THEN LStrip(Tail(s)) ELSE s

RECURSIVE RStrip(_)
RStrip(s) ==
    IF s # << >> /\ s[Len(s)] = " " THEN RStrip(SubSeq(s, 1, Len(s) - 1)) ELSE s

Strip(s) == RStrip(LStrip(s))

\* position of the first c in s, 0 when there is none
FirstPos(s, c) ==
    IF \E i \in 1..Len(s) : s[i] = c
    THEN CHOOSE i \in 1..Len(s) : s[i] = c /\ \A j \in 1..(i - 1) : s[j] # c
    ELSE 0

RECURSIVE Split(_, _)
Split(s, c) ==
    Bind(FirstPos(s, c), LAMBDA i :
        IF i = 0 THEN << s >>
        ELSE << SubSeq(s, 1, i - 1) >> \o Split(SubSeq(s, i + 1, Len(s)), c))

\* _parse_email_address: re.match(r'([^<]*)<([^>]*)>') else the bare string
ParseEmailAddress(address_str) ==
    IF address_str = << >> THEN [name |-> << >>, email |-> << >>]
    ELSE Bind(FirstPos(address_str, "<"), LAMBDA lt :
         Bind(SubSeq(address_str, lt + 1, Len(address_str)), LAMBDA rest :
         Bind(FirstPos(rest, ">"), LAMBDA gt :
             IF lt > 0 /\ gt > 0
             THEN [name |-> Strip(SubSeq(address_str, 1, lt - 1)),
                   email |-> Strip(SubSeq(rest, 1, gt - 1))]
             ELSE [name |-> << >>, email |-> Strip(address_str)])))

----------------------------------------------------------------------------
(* Provider message payloads (the Gmail API message resource). *)

Chars(w) ==
    CASE w = "a@x" -> << "a", "@", "x" >>
      [] w = "b@y" -> << "b", "@", "y" >>
      [] w = "B <b@y>" -> << "B", " ", "<", "b", "@", "y", ">" >>
      [] w = "a@x, b@y" -> << "a", "@", "x", ",", " ", "b", "@", "y" >>
      [] w = "a@x, a@x" -> << "a", "@", "x", ",", " ", "a", "@", "x" >>
      [] w = "a@x, , b@y" ->
            << "a", "@", "x", ",", " ", ",", " ", "b", "@", "y" >>
      [] w = "bob" -> << "b", "o", "b" >>
      [] w = "User <>" -> << "U", "s", "e", "r", " ", "<", ">" >>
      [] w = " " -> << " " >>
      [] OTHER -> << >>

\* base64.urlsafe_b64decode(data).decode('utf-8'), on the encodings used here
B64Decode(data) ==
    CASE data = "SGVsbG8=" -> "Hello"
      [] data = "PHA+SGk8L3A+" -> "<p>Hi</p>"
      [] data = "Qnll" -> "Bye"
      [] data = "PGI+WTwvYj4=" -> "<b>Y</b>"
      [] OTHER -> ""

\* str.lower() on the header names used here
Lower(n) ==
    CASE n = "From" -> "from"
      [] n = "To" -> "to"
      [] n = "Cc" -> "cc"
      [] n = "CC" -> "cc"
      [] n = "Bcc" -> "bcc"
      [] n = "Subject" -> "subject"
      [] n = "Date" -> "date"
      [] n = "In-Reply-To" -> "in-reply-to"
      [] OTHER -> n

H(n, v) == [name |-> n, value |-> v]

\* a Date header: its format, the instant it denotes and its UTC offset
DateAt(f, t, off) == [fmt |-> f, t |-> t, off |-> off]
DateStr(f, t) == DateAt(f, t, 0)
NoDate == DateStr("", 0)

\* a leaf or multipart node of payload / payload.parts
Part(mime, has_data, data, fname, has_parts, parts) ==
    [mimeType |-> mime, hasData |-> has_data, data |-> data,
     filename |-> fname, hasParts |-> has_parts, parts |-> parts]
Leaf(mime, data) == Part(mime, TRUE, data, "", FALSE, << >>)
File(mime, fname) == Part(mime, FALSE, "", fname, FALSE, << >>)
Multi(mime, parts) == Part(mime, FALSE, "", "", TRUE, parts)
Empty(mime) == Part(mime, FALSE, "", "", FALSE, << >>)

Msg(id, thread, snip, labs, hdrs, body) ==
    [id |-> id, threadId |-> thread, snippet |-> snip, labelIds |-> labs,
     headers |-> hdrs, payload |-> body]

\* plain text body, sender and one recipient
PayloadA ==
    Msg("m1", "t1", "hello", << "INBOX", "UNREAD" >>,
        << H("Subject", "Hi"), H("From", Chars("a@x")), H("To", Chars("b@y")),
           H("Date", DateStr("rfc", 10)) >>,
        Leaf("text/plain", "SGVsbG8="))

\* the same provider id as PayloadA with every other field different
PayloadA2 ==
    Msg("m1", "t2", "changed", << "TRASH" >>,
        << H("Subject", "Other"), H("From", Chars("B <b@y>")),
           H("To", Chars("a@x, b@y")), H("CC", Chars("a@x")),
           H("Date", DateStr("rfc", 30)) >>,
        Multi("multipart/mixed",
              << Leaf("text/html", "PHA+SGk8L3A+"),
                 File("application/pdf", "f.pdf") >>))

\* no From header
PayloadNoFrom ==
    Msg("m2", "t1", "anon", << "INBOX" >>,
        << H("Subject", "Hi"), H("To", Chars("a@x")),
           H("Date", DateStr("short", 20)) >>,
        Leaf("text/plain", "Qnll"))

\* multipart, named sender, two recipients, a Cc and an attachment
PayloadMulti ==
    Msg("m3", "t2", "multi", << "INBOX", "INBOX" >>,
        << H("From", Chars("B <b@y>")), H("To", Chars("a@x, b@y")),
           H("Cc", Chars("a@x")), H("Date", DateStr("bad", 0)) >>,
        Multi("multipart/mixed",
              << Multi("multipart/alternative",
                       << Leaf("text/plain", "SGVsbG8="),
                          Leaf("text/html", "PHA+SGk8L3A+") >>),
                 File("application/pdf", "f.pdf") >>))

\* a sender and no body at all
PayloadNoBody ==
    Msg("m4", "t1", "", << >>,
        << H("Subject", "Hi"), H("From", Chars("a@x")) >>,
        Empty("text/plain"))

\* no `id` key: email_data.get('id') is None
PayloadNoId ==
    Msg(NullStr, "t2", "", << "INBOX" >>,
        << H("From", Chars("b@y")), H("To", Chars("a@x")) >>,
        Leaf("text/plain", "Qnll"))

\* three messages of one thread sent at the instants 10 < 11 < 12 from
\* places with the UTC offsets +9, -5 and 0
PayloadT1 ==
    Msg("m5", "t3", "first", << "INBOX" >>,
        << H("Subject", "Re"), H("From", Chars("a@x")), H("To", Chars("b@y")),
           H("Date", DateAt("rfc", 10, 9)) >>,
        Leaf("text/plain", "SGVsbG8="))

PayloadT2 ==
    Msg("m6", "t3", "second", << "INBOX" >>,
        << H("Subject", "Re"), H("From", Chars("B <b@y>")), H("To", Chars("a@x")),
           H("Date", DateAt("rfc", 11, -5)) >>,
        Leaf("text/plain", "Qnll"))

PayloadT3 ==
    Msg("m7", "t3", "third", << "INBOX" >>,
        << H("Subject", "Re"), H("From", Chars("a@x")), H("To", Chars("b@y")),
           H("Date", DateAt("short", 12, 0)) >>,
        Leaf("text/plain", "SGVsbG8="))

\* a message of thread t4 from a@x with the given To, Cc and Bcc headers
Addressed(id, to, cc, bcc) ==
    Msg(id, "t4", "", << "INBOX" >>,
        << H("From", Chars("a@x")), H("To", Chars(to)) >>
        \o (IF cc # "" THEN << H("Cc", Chars(cc)) >> ELSE << >>)
        \o (IF bcc # "" THEN << H("Bcc", Chars(bcc)) >> ELSE << >>),
        Leaf("text/plain", "Qnll"))

\* recipients that are not addresses, empty items, an address listed twice
\* and a Bcc header
PayloadBareWord == Addressed("m8", "bob", "", "")
PayloadEmptyTo == Addressed("m9", " ", "", "")
PayloadEmptyItem == Addressed("m10", "a@x, , b@y", "", "")
PayloadEmptyAngle == Addressed("m11", "User <>", "", "")
PayloadTwice == Addressed("m12", "a@x, a@x", "a@x", "")
PayloadBcc == Addressed("m13", "a@x", "", "b@y")

HeaderPayloads ==
    {PayloadBareWord, PayloadEmptyTo, PayloadEmptyItem, PayloadEmptyAngle,
     PayloadTwice, PayloadBcc}

\* a message of thread t5 from a@x with the given parts
Parts(id, parts) ==
    Msg(id, "t5", "", << "INBOX" >>, << H("From", Chars("a@x")) >>,
        Multi("multipart/mixed", parts))

\* two parts of one type at one level, a nested part before and after a
\* direct part of its type, and parts nested twice
PayloadTwoPlain ==
    Parts("m14", << Leaf("text/plain", "SGVsbG8="), Leaf("text/plain", "Qnll") >>)
PayloadTwoHtml ==
    Parts("m15", << Leaf("text/html", "PHA+SGk8L3A+"),
                    Leaf("text/plain", "Qnll"),
                    Leaf("text/html", "PGI+WTwvYj4=") >>)
PayloadNestedFirst ==
    Parts("m16", << Multi("multipart/alternative",
                          << Leaf("text/plain", "SGVsbG8="),
                             Leaf("text/html", "PHA+SGk8L3A+") >>),
                    Leaf("text/plain", "Qnll") >>)
PayloadDirectFirst ==
    Parts("m17", << Leaf("text/plain", "SGVsbG8="),
                    Multi("multipart/alternative",
                          << Leaf("text/plain", "Qnll"),
                             Leaf("text/html", "PHA+SGk8L3A+") >>) >>)
PayloadNestedTwice ==
    Parts("m18", << Multi("multipart/related",
                          << File("image/png", "i.png"),
                             Multi("multipart/alternative",
                                   << Leaf("text/html", "PHA+SGk8L3A+") >>) >>),
                    Multi("multipart/alternative",
                          << Leaf("text/plain", "Qnll"),
                             Leaf("text/html", "PGI+WTwvYj4=") >>) >>)

BodyPayloads ==
    {PayloadTwoPlain, PayloadTwoHtml, PayloadNestedFirst, PayloadDirectFirst,
     PayloadNestedTwice}

ThreadPayloads == {PayloadT1, PayloadT2, PayloadT3}

Payloads ==
    {PayloadA, PayloadA2, PayloadNoFrom, PayloadMulti, PayloadNoBody, PayloadNoId}

\* next((h['value'] for h in headers if h['name'].lower() == name), default)
Header(headers, name, default) ==
    IF \E i \in 1..Len(headers) : Lower(headers[i].name) = name
    THEN headers[CHOOSE i \in 1..Len(headers) :
                    /\ Lower(headers[i].name) = name
                    /\ \A j \in 1..(i - 1) : Lower(headers[j].name) # name].value
    ELSE default

\* the offset field of a datetime without tzinfo
Naive == 100

\* a datetime as the emails.timestamp column holds it, the text
\* str(datetime): the wall-clock time of the sender's zone followed by the
\* UTC offset, or by the microseconds alone for a naive datetime
Stamp(local, off) == [local |-> local, off |-> off]

\* _parse_date: the two strptime formats (both with %z), else datetime.now()
ParseDate(date_str, clock) ==
    IF date_str.fmt \in {"rfc", "short"}
    THEN Stamp(date_str.t + date_str.off, date_str.off)
    ELSE Stamp(clock, Naive)

RECURSIVE ExtractBodyParts(_, _)
\* _extract_body: (text_body, html_body) of a payload node
ExtractBody(payload) ==
    IF payload.hasParts
    THEN ExtractBodyParts(payload.parts, [text |-> "", html |-> ""])
    ELSE IF payload.hasData
         THEN IF payload.mimeType = "text/html"
              THEN [text |-> "", html |-> B64Decode(payload.data)]
              ELSE [text |-> B64Decode(payload.data), html |-> ""]
         ELSE [text |-> "", html |-> ""]

\* the loop over payload['parts'] of _extract_body
ExtractBodyParts(parts, acc) ==
    IF parts = << >> THEN acc
    ELSE Bind(Head(parts), LAMBDA part :
         ExtractBodyParts(Tail(parts),
             IF part.mimeType = "text/plain" /\ part.hasData
             THEN [acc EXCEPT !.text = B64Decode(part.data)]
             ELSE IF part.mimeType = "text/html" /\ part.hasData
             THEN [acc EXCEPT !.html = B64Decode(part.data)]
             ELSE IF part.hasParts
             THEN Bind(ExtractBody(part), LAMBDA sub :
                      [text |-> IF sub.text # "" /\ acc.text = ""
                                THEN sub.text ELSE acc.text,
                       html |-> IF sub.html # "" /\ acc.html = ""
                                THEN sub.html ELSE acc.html])
             ELSE acc))

RECURSIVE ExtractAttachmentsParts(_)
\* _extract_attachments: the named parts, in document order
ExtractAttachments(payload) ==
    IF payload.hasParts THEN ExtractAttachmentsParts(payload.parts) ELSE << >>

\* the loop over payload['parts'] of _extract_attachments
ExtractAttachmentsParts(parts) ==
    IF parts = << >> THEN << >>
    ELSE Bind(Head(parts), LAMBDA part :
             (IF part.filename # ""
              THEN << [filename |-> part.filename,
                       mimeType |-> part.mimeType] >>
              ELSE << >>)
             \o (IF part.hasParts THEN ExtractAttachments(part) ELSE << >>)
             \o ExtractAttachmentsParts(Tail(parts)))

----------------------------------------------------------------------------
(* The relational store: schema.py and the statements of email_storage.py. *)
(* A table is the sequence of its rows; a statement maps a database to the *)
(* database after it, with ok = FALSE when SQLite raises.                  *)

\* _create_tables on a new file
EmptyDb ==
    [users |-> << >>, threads |-> << >>, emails |-> << >>, recipients |-> << >>,
     attachments |-> << >>, labels |-> << >>, email_labels |-> {}]

\* SELECT id FROM <table> WHERE <col> = ?  (fetchone), NULL when no row.
\* The columns searched are NOT NULL, so no row holds NullStr and a search
\* for it finds nothing, as `= NULL` does in SQL.
FindId(table, col, val) ==
    IF \E i \in 1..Len(table) : table[i][col] = val
    THEN CHOOSE i \in 1..Len(table) : table[i][col] = val
    ELSE NULL

Step(d, id, ok) == [d |-> d, id |-> id, ok |-> ok]

\* _store_thread
\* mutant: an existing thread row is returned without the UPDATE
StoreThreadNoRefresh(d, thread_id, subject, snippet, clock) ==
    Bind(FindId(d.threads, "thread_id", thread_id), LAMBDA found :
        IF found # NULL THEN Step(d, found, TRUE)
        ELSE IF thread_id = NullStr THEN Step(d, NULL, FALSE)
        ELSE Step([d EXCEPT !.threads = Append(@,
                      [thread_id |-> thread_id, subject |-> subject,
                       snippet |-> snippet, last_updated |-> clock,
                       created_at |-> clock])],
                  Len(d.threads) + 1, TRUE))

StoreThread(d, thread_id, subject, snippet, clock) ==
    Bind(FindId(d.threads, "thread_id", thread_id), LAMBDA found :
        IF found # NULL
        THEN Step([d EXCEPT !.threads[found].last_updated = clock], found, TRUE)
        ELSE IF thread_id = NullStr
        THEN Step(d, NULL, FALSE)     \* thread_id TEXT UNIQUE NOT NULL
        ELSE Step([d EXCEPT !.threads = Append(@,
                      [thread_id |-> thread_id, subject |-> subject,
                       snippet |-> snippet, last_updated |-> clock,
                       created_at |-> clock])],
                  Len(d.threads) + 1, TRUE))

\* _store_user
\* mutant: a user row is inserted without looking for the address
StoreUserNoLookup(d, email_addr, name) ==
    IF email_addr = << >> THEN Step(d, NULL, TRUE)
    ELSE Step([d EXCEPT !.users = Append(@, [email |-> email_addr, name |-> name])],
              Len(d.users) + 1, TRUE)

StoreUser(d, email_addr, name) ==
    IF email_addr = << >> THEN Step(d, NULL, TRUE)
    ELSE Bind(FindId(d.users, "email", email_addr), LAMBDA found :
             IF found # NULL THEN Step(d, found, TRUE)
             ELSE Step([d EXCEPT !.users = Append(@,
                           [email |-> email_addr, name |-> name])],
                       Len(d.users) + 1, TRUE))

\* INSERT INTO emails (...) and the SELECT id that follows it
InsertEmail(d, row) ==
    IF row.message_id = NullStr \/ FindId(d.emails, "message_id", row.message_id) # NULL
    THEN Step(d, NULL, FALSE)     \* message_id TEXT UNIQUE NOT NULL
    ELSE Step([d EXCEPT !.emails = Append(@, row)], Len(d.emails) + 1, TRUE)

RECURSIVE ParseList(_)
\* _parse_email_address(recipient.strip()) for each item of the split
ParseList(items) ==
    IF items = << >> THEN << >>
    ELSE << ParseEmailAddress(Strip(Head(items))) >> \o ParseList(Tail(items))

\* the addresses _store_recipients iterates over
RecipientItems(recipients_str) ==
    IF recipients_str = << >> THEN << >>
    ELSE ParseList(Split(recipients_str, ","))

RECURSIVE StoreRecipients(_, _, _, _)
\* _store_recipients, over the parsed items of recipients_str.split(',')
StoreRecipients(d, email_id, items, recipient_type) ==
    IF items = << >> THEN d
    ELSE Bind(Head(items), LAMBDA parsed :
         Bind(StoreUser(d, parsed.email, parsed.name), LAMBDA u :
             StoreRecipients(
                 IF parsed.email # << >>
                 THEN [u.d EXCEPT !.recipients = Append(@,
                          [email_id |-> email_id, user_id |-> u.id,
                           type |-> recipient_type])]
                 ELSE d,
                 email_id, Tail(items), recipient_type)))

RECURSIVE StoreAttachments(_, _, _)
\* the loop over attachments calling _store_attachment
StoreAttachments(d, email_id, atts) ==
    IF atts = << >> THEN d
    ELSE StoreAttachments(
             [d EXCEPT !.attachments = Append(@,
                 [email_id |-> email_id, filename |-> Head(atts).filename,
                  content_type |-> Head(atts).mimeType])],
             email_id, Tail(atts))

\* _store_label
StoreLabel(d, email_id, label_name) ==
    Bind(FindId(d.labels, "name", label_name), LAMBDA found :
        IF found # NULL
        THEN [d EXCEPT !.email_labels = @ \cup {<< email_id, found >>}]
        ELSE [d EXCEPT !.labels = Append(@, [name |-> label_name]),
                       !.email_labels = @ \cup {<< email_id, Len(d.labels) + 1 >>}])

RECURSIVE StoreLabels(_, _, _)
\* the loop over labels calling _store_label
StoreLabels(d, email_id, labs) ==
    IF labs = << >> THEN d
    ELSE StoreLabels(StoreLabel(d, email_id, Head(labs)), email_id, Tail(labs))

InSeq(x, s) == \E i \in 1..Len(s) : s[i] = x

\* the places of the write where a statement can raise sqlite3.Error
Faults == {"none", "thread", "sender", "email", "recipients", "attachments",
           "labels", "commit"}

\* lines 31-65 of store_email: what is read from the payload before the write
Extract(email_data) ==
    Bind(email_data.headers, LAMBDA headers :
    Bind(Header(headers, "cc", << >>), LAMBDA cc :
        [subject |-> Header(headers, "subject", "No Subject"),
         sender |-> ParseEmailAddress(Header(headers, "from", << >>)),
         recipients |-> RecipientItems(Header(headers, "to", << >>)),
         has_cc |-> cc # << >>,
         cc |-> RecipientItems(cc),
         date_str |-> Header(headers, "date", NoDate),
         body |-> ExtractBody(email_data.payload),
         labels |-> email_data.labelIds,
         attachments |-> ExtractAttachments(email_data.payload)]))

\* Extract, computed once for each payload of the model
Extracted ==
    [p \in Payloads \cup ThreadPayloads \cup HeaderPayloads \cup BodyPayloads |->
        Extract(p)]

\* the body of `with self.db.conn:` in store_email: the uncommitted database
\* after the statements that ran, its ok FALSE when one of them raised
WriteUnit(d, email_data, clock, fault) ==
    Bind(Extracted[email_data], LAMBDA x :
    Bind(StoreThread(d, email_data.threadId, x.subject, email_data.snippet, clock),
         LAMBDA t :
    IF fault = "thread" \/ ~t.ok THEN Step(d, NULL, FALSE)
    ELSE IF fault = "sender" THEN Step(t.d, NULL, FALSE)
    ELSE
    Bind(StoreUser(t.d, x.sender.email, x.sender.name), LAMBDA u :
    Bind(InsertEmail(u.d,
             [message_id |-> email_data.id, thread_id |-> t.id,
              sender_id |-> u.id, subject |-> x.subject,
              body_text |-> x.body.text, body_html |-> x.body.html,
              snippet |-> email_data.snippet,
              timestamp |-> ParseDate(x.date_str, clock),
              is_read |-> ~InSeq("UNREAD", x.labels),
              is_archived |-> ~InSeq("INBOX", x.labels),
              is_deleted |-> InSeq("TRASH", x.labels)]), LAMBDA e :
    IF fault = "email" \/ ~e.ok THEN Step(u.d, NULL, FALSE)
    ELSE IF fault = "recipients" THEN Step(e.d, NULL, FALSE)
    ELSE
    Bind(StoreRecipients(e.d, e.id, x.recipients, "to"), LAMBDA r1 :
    Bind(IF x.has_cc THEN StoreRecipients(r1, e.id, x.cc, "cc") ELSE r1,
         LAMBDA r2 :
    IF fault = "attachments" THEN Step(r2, NULL, FALSE)
    ELSE
    Bind(StoreAttachments(r2, e.id, x.attachments), LAMBDA a :
    IF fault = "labels" THEN Step(a, NULL, FALSE)
    ELSE
    Bind(StoreLabels(a, e.id, x.labels), LAMBDA l :
    IF fault = "commit" THEN Step(l, NULL, FALSE)
    ELSE Step(l, e.id, TRUE)))))))))

\* mutant: the exception is re-raised without a rollback and the next commit
\* keeps what the statements wrote
RollbackMissing(committed, working) == working

\* conn.rollback() / the __exit__ of `with self.db.conn:` on an exception
Rollback(committed, working) == committed

Outcome(d, result, raised, path) ==
    [db |-> d, result |-> result, raised |-> raised, path |-> path]

\* mutant: the duplicate check is made inside the write, after _store_thread
StorageStoreEmailLateCheck(d, email_data, clock, fault) ==
    Bind(FindId(d.emails, "message_id", email_data.id), LAMBDA existing :
        IF existing # NULL
        THEN Outcome(StoreThread(d, email_data.threadId,
                                 Extracted[email_data].subject,
                                 email_data.snippet, clock).d,
                     existing, FALSE, "duplicate")
        ELSE Bind(WriteUnit(d, email_data, clock, fault), LAMBDA w :
                 IF w.ok THEN Outcome(w.d, w.id, FALSE, "stored")
                 ELSE Outcome(d, NULL, TRUE, "raised")))

\* EmailStorage.store_email
StorageStoreEmail(d, email_data, clock, fault) ==
    Bind(FindId(d.emails, "message_id", email_data.id), LAMBDA existing :
        IF existing # NULL THEN Outcome(d, existing, FALSE, "duplicate")
        ELSE Bind(WriteUnit(d, email_data, clock, fault), LAMBDA w :
                 IF w.ok THEN Outcome(w.d, w.id, FALSE, "stored")
                 ELSE Outcome(Rollback(d, w.d), NULL, TRUE, "raised")))

----------------------------------------------------------------------------
(* The vector index: vector_store.py.  A vector is a sequence of integers.  *)

Zeros(n) == [i \in 1..n |-> 0]
Unit(i) == [j \in 1..Dim |-> IF j = i THEN 1 ELSE 0]
Scale(c, v) == [i \in 1..Len(v) |-> c * v[i]]

RECURSIVE SumSq(_)
SumSq(v) == IF v = << >> THEN 0 ELSE Head(v) * Head(v) + SumSq(Tail(v))

ISqrt(n) == CHOOSE r \in 0..n : r * r <= n /\ n < (r + 1) * (r + 1)

\* the largest finite float, the two infinities and NaN as components
MaxFloat == 1000
PosInf == 1001
NegInf == -1001
NaN == 1002

\* np.nan_to_num(embedding), applied when a component is not finite: NaN
\* becomes 0.0 and the infinities the largest and the smallest finite float
NanToNum(v) ==
    [i \in 1..Len(v) |->
        IF v[i] = NaN THEN 0
        ELSE IF v[i] = PosInf THEN MaxFloat
        ELSE IF v[i] = NegInf THEN 0 - MaxFloat
        ELSE v[i]]

\* mutant: the last components are kept and the zeros are put in front
ResizeFromEnd(v) ==
    IF Len(v) > Dim THEN SubSeq(v, Len(v) - Dim + 1, Len(v))
    ELSE Zeros(Dim - Len(v)) \o v

\* embedding[:, :dimension] or np.hstack((embedding, zeros)): lines 85-94
Resize(v) ==
    IF Len(v) > Dim THEN SubSeq(v, 1, Dim)
    ELSE v \o Zeros(Dim - Len(v))

\* embedding / np.linalg.norm(embedding) unless the norm is 0: lines 98-100
\* (the vectors of the model have an integral norm dividing each component)
Normalize(v) ==
    IF SumSq(v) = 0 THEN v
    \* the square of the largest float overflows: the norm is inf, x / inf = 0
    ELSE IF \E i \in 1..Len(v) : v[i] \in {MaxFloat, 0 - MaxFloat}
    THEN Zeros(Len(v))
    ELSE [i \in 1..Len(v) |-> v[i] \div ISqrt(SumSq(v))]

\* a file: absent, complete with its content, or cut short by an
\* interrupted write
AbsentFile == [state |-> "absent", data |-> << >>]
PartialFile == [state |-> "partial", data |-> << >>]
Complete(x) == [state |-> "complete", data |-> x]

Files(i, m, ti, tm) == [index |-> i, meta |-> m, tmpIndex |-> ti, tmpMeta |-> tm]

\* mutant: both files are written in place, as _save_index and
\* _save_metadata write them
SaveInPlace(disk, idx, meta, done) ==
    IF done >= 1
    THEN [disk EXCEPT !.index = Complete(idx),
                      !.meta = IF done >= 2 THEN Complete(meta) ELSE PartialFile]
    ELSE [disk EXCEPT !.index = PartialFile]

\* mutant: the metadata is written to its temporary file and never renamed
SaveIndexOnly(disk, idx, meta, done) ==
    IF done >= 3
    THEN [disk EXCEPT !.index = Complete(idx), !.tmpMeta = Complete(meta)]
    ELSE disk

\* _save, `done` of its four steps completed before an exception or the end
\* of the process (4: all of them): write_index to the temporary path,
\* json.dump to the temporary path, os.replace, os.replace
Save(disk, idx, meta, done) ==
    Bind([disk EXCEPT !.tmpIndex =
              IF done >= 1 THEN Complete(idx) ELSE PartialFile], LAMBDA s1 :
    Bind(IF done >= 1
         THEN [s1 EXCEPT !.tmpMeta =
                  IF done >= 2 THEN Complete(meta) ELSE PartialFile]
         ELSE s1, LAMBDA s2 :
    Bind(IF done >= 3
         THEN [s2 EXCEPT !.index = s2.tmpIndex, !.tmpIndex = AbsentFile]
         ELSE s2, LAMBDA s3 :
        IF done >= 4
        THEN [s3 EXCEPT !.meta = s3.tmpMeta, !.tmpMeta = AbsentFile]
        ELSE s3)))

\* _save_metadata: open(metadata_path, 'w') and json.dump.  done < 0: open
\* raises and the file is left as it was; 0: the file is truncated and
\* json.dump does not complete; 1: it completes
SaveMetadata(disk, meta, done) ==
    IF done < 0 THEN disk
    ELSE [disk EXCEPT !.meta = IF done >= 1 THEN Complete(meta) ELSE PartialFile]

Mem(idx, meta) == [index |-> idx, metadata |-> meta]

\* mutant: the index that was read is kept when the metadata cannot be read
InitializeIndexKeepsIndex(disk) ==
    IF disk.index.state # "absent" /\ disk.meta.state # "absent"
    THEN IF disk.index.state = "complete"
         THEN Mem(disk.index.data,
                  IF disk.meta.state = "complete" THEN disk.meta.data ELSE << >>)
         ELSE Mem(<< >>, << >>)
    ELSE Mem(<< >>, << >>)

\* _initialize_index
InitializeIndex(disk) ==
    IF disk.index.state # "absent" /\ disk.meta.state # "absent"
    THEN IF disk.index.state = "complete" /\ disk.meta.state = "complete"
         THEN Mem(disk.index.data, disk.meta.data)
         ELSE Mem(<< >>, << >>)         \* except: the fallback
    ELSE Mem(<< >>, << >>)

Put(f, k, v) == [x \in DOMAIN f \cup {k} |-> IF x = k THEN v ELSE f[x]]
Drop(f, ks) == [x \in DOMAIN f \ ks |-> f[x]]

Added(mem, disk, result, raised) ==
    [mem |-> mem, disk |-> disk, result |-> result, raised |-> raised]

\* mutant: the slot id is the number of metadata entries, not index.ntotal
AddEmailTrySlotFromMetadata(mem, disk, email_id, embedding, email_metadata, add_fails, done) ==
    IF embedding = << >> THEN Added(mem, disk, NoSlot, FALSE)
    ELSE IF add_fails THEN Added(mem, disk, NoSlot, TRUE)
    ELSE Bind(Cardinality(DOMAIN mem.metadata), LAMBDA index_id :
         Bind(Mem(Append(mem.index, Normalize(Resize(NanToNum(embedding)))),
                  Put(mem.metadata, index_id,
                      [email_id |-> email_id, metadata |-> email_metadata])),
              LAMBDA m2 :
             Added(m2, Save(disk, m2.index, m2.metadata, done),
                   index_id, FALSE)))

\* mutant: the index and the metadata are read from the files again before
\* the vector is added
AddEmailTryReloaded(mem, disk, email_id, embedding, email_metadata, add_fails, done) ==
    IF embedding = << >> THEN Added(mem, disk, NoSlot, FALSE)
    ELSE IF add_fails THEN Added(mem, disk, NoSlot, TRUE)
    ELSE Bind(InitializeIndex(disk), LAMBDA cur :
         Bind(Mem(Append(cur.index, Normalize(Resize(NanToNum(embedding)))),
                  Put(cur.metadata, Len(cur.index),
                      [email_id |-> email_id, metadata |-> email_metadata])),
              LAMBDA m2 :
             Added(m2, Save(disk, m2.index, m2.metadata, done),
                   Len(cur.index), FALSE)))

\* mutant: the vector and its entry are kept only when _save completes
AddEmailTryDropsUnsaved(mem, disk, email_id, embedding, email_metadata, add_fails, done) ==
    IF embedding = << >> THEN Added(mem, disk, NoSlot, FALSE)
    ELSE IF add_fails THEN Added(mem, disk, NoSlot, TRUE)
    ELSE Bind(Len(mem.index), LAMBDA index_id :
         Bind(Mem(Append(mem.index, Normalize(Resize(NanToNum(embedding)))),
                  Put(mem.metadata, index_id,
                      [email_id |-> email_id, metadata |-> email_metadata])),
              LAMBDA m2 :
             Added(IF done < 4 THEN mem ELSE m2,
                   Save(disk, m2.index, m2.metadata, done), index_id, FALSE)))

\* the body of the try of add_email (lines 62-131); add_fails: self.index.add
\* raises; done: the steps of _save that complete
AddEmailTry(mem, disk, email_id, embedding, email_metadata, add_fails, done) ==
    IF embedding = << >> THEN Added(mem, disk, NoSlot, FALSE)
    ELSE IF add_fails THEN Added(mem, disk, NoSlot, TRUE)
    ELSE Bind(Len(mem.index), LAMBDA index_id :
         Bind(Mem(Append(mem.index, Normalize(Resize(NanToNum(embedding)))),
                  Put(mem.metadata, index_id,
                      [email_id |-> email_id, metadata |-> email_metadata])),
              LAMBDA m2 :
             Added(m2, Save(disk, m2.index, m2.metadata, done),
                   index_id, FALSE)))

\* mutant: no except clause, the exception of index.add reaches the caller
AddEmailNoExcept(mem, disk, email_id, embedding, email_metadata, add_fails, done) ==
    AddEmailTry(mem, disk, email_id, embedding, email_metadata, add_fails, done)

\* add_email: the try and its `except Exception: return None` (lines 132-137)
AddEmail(mem, disk, email_id, embedding, email_metadata, add_fails, done) ==
    Bind(AddEmailTry(mem, disk, email_id, embedding, email_metadata,
                     add_fails, done), LAMBDA r :
        IF r.raised THEN Added(r.mem, r.disk, NoSlot, FALSE) ELSE r)

\* the slots whose entry is for email_id: the first loop of delete_email
SlotsOf(meta, email_id) == {x \in DOMAIN meta : meta[x].email_id = email_id}

\* mutant: the entries are deleted from a copy of the metadata
DeleteEmailOnCopy(mem, disk, email_id, done) ==
    Added(mem, SaveMetadata(disk, mem.metadata, done),
          Cardinality(SlotsOf(mem.metadata, email_id)), FALSE)

\* mutant: the entry removed is the one of the slot numbered email_id
DeleteEmailBySlot(mem, disk, email_id, done) ==
    Bind(DOMAIN mem.metadata \cap {email_id}, LAMBDA indices_to_remove :
    Bind(Mem(mem.index, Drop(mem.metadata, indices_to_remove)), LAMBDA m2 :
        Added(m2, SaveMetadata(disk, m2.metadata, done),
              Cardinality(indices_to_remove), FALSE)))

\* delete_email
DeleteEmail(mem, disk, email_id, done) ==
    Bind(SlotsOf(mem.metadata, email_id), LAMBDA indices_to_remove :
    Bind(Mem(mem.index, Drop(mem.metadata, indices_to_remove)), LAMBDA m2 :
        Added(m2, SaveMetadata(disk, m2.metadata, done),
              Cardinality(indices_to_remove), FALSE)))

Dist(a, b) == SumSq([i \in 1..Len(a) |-> a[i] - b[i]])

\* mutant: the farthest slot comes first
BeforeFarthest(idx, q, a, b) ==
    \/ Dist(idx[a + 1], q) > Dist(idx[b + 1], q)
    \/ Dist(idx[a + 1], q) = Dist(idx[b + 1], q) /\ a < b

\* slot a comes before slot b in the result of IndexFlatL2.search
Before(idx, q, a, b) ==
    \/ Dist(idx[a + 1], q) < Dist(idx[b + 1], q)
    \/ Dist(idx[a + 1], q) = Dist(idx[b + 1], q) /\ a < b

\* the number of slots that come before slot a
Rank(idx, q, a) ==
    Cardinality({b \in 0..(Len(idx) - 1) : Before(idx, q, b, a)})

\* IndexFlatL2.search: the min(k, ntotal) slots nearest to q, nearest first
\* (equal distances in slot order)
Nearest(idx, q, k) ==
    [i \in 1..(IF k < Len(idx) THEN k ELSE Len(idx)) |->
        CHOOSE a \in 0..(Len(idx) - 1) : Rank(idx, q, a) = i - 1]

RECURSIVE Hits(_, _, _, _)
\* the loop of search over indices[0]: (email_id, score) of the slots that
\* have a metadata entry
Hits(idx, meta, q, slots) ==
    IF slots = << >> THEN << >>
    ELSE (IF Head(slots) \in DOMAIN meta
          THEN << [email_id |-> meta[Head(slots)].email_id,
                   score |-> Dist(idx[Head(slots) + 1], q)] >>
          ELSE << >>)
         \o Hits(idx, meta, q, Tail(slots))

Searched(raised, result) == [raised |-> raised, result |-> result]

\* the body of the try of search (lines 151-169): faiss asserts that the
\* query has the index's dimension and that k > 0
SearchTry(mem, query_embedding, k) ==
    IF Len(query_embedding) # Dim \/ k <= 0 THEN Searched(TRUE, << >>)
    ELSE Searched(FALSE, Hits(mem.index, mem.metadata, query_embedding,
                              Nearest(mem.index, query_embedding, k)))

\* mutant: no except clause, the exception reaches the caller
SearchNoExcept(mem, query_embedding, k) == SearchTry(mem, query_embedding, k)

\* search: the try and its `except Exception: return []` (lines 170-172)
SearchCall(mem, query_embedding, k) ==
    Bind(SearchTry(mem, query_embedding, k), LAMBDA r :
        IF r.raised THEN Searched(FALSE, << >>) ELSE r)

\* what search returns
Search(mem, query_embedding, k) == SearchCall(mem, query_embedding, k).result

----------------------------------------------------------------------------
(* Reads of the relational store. *)

RECURSIVE SelectRows(_, _, _)
\* the rows of a table whose email_id is the given one, in row order
SelectRows(table, email_id, i) ==
    IF i > Len(table) THEN << >>
    ELSE (IF table[i].email_id = email_id THEN << table[i] >> ELSE << >>)
         \o SelectRows(table, email_id, i + 1)

RECURSIVE RecipientsOfType(_, _, _)
\* result['recipients'][r_type]: r JOIN users u ON r.user_id = u.id
RecipientsOfType(d, rows, r_type) ==
    IF rows = << >> THEN << >>
    ELSE (IF Head(rows).type = r_type /\ Head(rows).user_id \in 1..Len(d.users)
          THEN << d.users[Head(rows).user_id] >> ELSE << >>)
         \o RecipientsOfType(d, Tail(rows), r_type)

\* get_email_by_id: NoRecord for None, else the one hydrated record
GetEmailById(d, email_id) ==
    IF email_id \notin 1..Len(d.emails) THEN NoRecord
    ELSE Bind(d.emails[email_id], LAMBDA e :
             \* JOIN users u ON e.sender_id = u.id JOIN email_threads t ...
             IF e.sender_id \notin 1..Len(d.users)
                \/ e.thread_id \notin 1..Len(d.threads)
             THEN NoRecord
             ELSE
         Bind(SelectRows(d.recipients, email_id, 1), LAMBDA rows :
                  << [id |-> email_id,
                      message_id |-> e.message_id,
                      subject |-> e.subject,
                      body_text |-> e.body_text,
                      body_html |-> e.body_html,
                      timestamp |-> e.timestamp,
                      sender_email |-> d.users[e.sender_id].email,
                      sender_name |-> d.users[e.sender_id].name,
                      gmail_thread_id |-> d.threads[e.thread_id].thread_id,
                      recipients |-> [t \in {rows[i].type : i \in 1..Len(rows)} |->
                                         RecipientsOfType(d, rows, t)],
                      attachments |-> SelectRows(d.attachments, email_id, 1),
                      labels |-> {d.labels[el[2]].name :
                                     el \in {x \in d.email_labels : x[1] = email_id}}] >>))

\* mutant: the lookup compares another column with the provider id
GetEmailByMessageIdWrongColumn(d, message_id) ==
    Bind(FindId(d.emails, "snippet", message_id), LAMBDA found :
        IF found = NULL THEN NoRecord ELSE GetEmailById(d, found))

\* get_email_by_message_id
GetEmailByMessageId(d, message_id) ==
    Bind(FindId(d.emails, "message_id", message_id), LAMBDA found :
        IF found = NULL THEN NoRecord ELSE GetEmailById(d, found))

\* the text of the UTC offset, as a number that orders as the text does:
\* "+hh:mm" before "-hh:mm" before ".ffffff"
OffsetText(off) ==
    IF off = Naive THEN 2 * Naive
    ELSE IF off >= 0 THEN off ELSE Naive - off

\* the timestamp text a is before the timestamp text b: emails.timestamp
\* has no declared collation but BINARY, ORDER BY compares the stored text
StampBefore(a, b) ==
    \/ a.local < b.local
    \/ a.local = b.local /\ OffsetText(a.off) < OffsetText(b.off)

\* ORDER BY e.timestamp over the rows ids: row a comes before row b (rows
\* with the same text in rowid order, the order of the scan)
RowBefore(d, a, b, desc) ==
    \/ (IF desc THEN StampBefore(d.emails[b].timestamp, d.emails[a].timestamp)
        ELSE StampBefore(d.emails[a].timestamp, d.emails[b].timestamp))
    \/ d.emails[a].timestamp = d.emails[b].timestamp /\ a < b

OrderByTimestamp(d, ids, desc) ==
    [i \in 1..Cardinality(ids) |->
        CHOOSE a \in ids :
            Cardinality({b \in ids : RowBefore(d, b, a, desc)}) = i - 1]

\* a hydration that yields the records in the reverse order
HydrateReversed(d, email_ids) ==
    [i \in 1..Len(email_ids) |->
        GetEmailById(d, email_ids[Len(email_ids) + 1 - i])]

\* [self.get_email_by_id(eid) for eid in email_ids]
Hydrate(d, email_ids) ==
    [i \in 1..Len(email_ids) |-> GetEmailById(d, email_ids[i])]

\* get_thread_emails: JOIN email_threads, WHERE t.thread_id = ?, ORDER BY
\* e.timestamp
GetThreadEmails(d, thread_id) ==
    Hydrate(d, OrderByTimestamp(d,
        {i \in 1..Len(d.emails) :
            /\ d.emails[i].thread_id \in 1..Len(d.threads)
            /\ d.threads[d.emails[i].thread_id].thread_id = thread_id},
        FALSE))

\* the characters of the subjects, bodies and queries of the model
Letters(w) ==
    CASE w = "Hi" -> << "H", "i" >>
      [] w = "hi" -> << "h", "i" >>
      [] w = "Re" -> << "R", "e" >>
      [] w = "Other" -> << "O", "t", "h", "e", "r" >>
      [] w = "No Subject" -> << "N", "o", " ", "S", "u", "b", "j", "e", "c", "t" >>
      [] w = "Hello" -> << "H", "e", "l", "l", "o" >>
      [] w = "Bye" -> << "B", "y", "e" >>
      [] w = "b" -> << "b" >>
      [] w = "zz" -> << "z", "z" >>
      [] OTHER -> << >>

\* LIKE is case-insensitive for the ASCII letters
LowerChar(c) ==
    CASE c = "H" -> "h" [] c = "B" -> "b" [] c = "R" -> "r" [] c = "O" -> "o"
      [] c = "N" -> "n" [] c = "S" -> "s" [] OTHER -> c

\* text LIKE '%' || query || '%'
Like(text, query) ==
    \E i \in 0..(Len(text) - Len(query)) :
        \A j \in 1..Len(query) : LowerChar(text[i + j]) = LowerChar(query[j])

\* the WHERE clause of search_emails on row i: LEFT JOIN users, so a row
\* without a sender is kept and its u.email and u.name are NULL
Matches(d, i, query) ==
    \/ Like(Letters(d.emails[i].subject), query)
    \/ Like(Letters(d.emails[i].body_text), query)
    \/ /\ d.emails[i].sender_id \in 1..Len(d.users)
       /\ \/ Like(d.users[d.emails[i].sender_id].email, query)
          \/ Like(d.users[d.emails[i].sender_id].name, query)

\* search_emails(query, limit), offset 0
SearchEmails(d, query, limit) ==
    Bind(OrderByTimestamp(d, {i \in 1..Len(d.emails) : Matches(d, i, query)},
                          TRUE), LAMBDA ids :
        Hydrate(d, SubSeq(ids, 1, IF limit < Len(ids) THEN limit ELSE Len(ids))))

----------------------------------------------------------------------------
(* The embedding adapter (embeddings.py) and the pipeline (email_db.py). *)

\* np.zeros(384) of get_embedding and VectorStore.dimension are both 384
EmbedDim == Dim

\* what SentenceTransformer.encode can do: a vector of the model, or raise
Encoded(v) == [ok |-> TRUE, vec |-> v]
EncodeRaises == [ok |-> FALSE, vec |-> << >>]
ModelOutputs == {Encoded(Scale(2, Unit(1))), Encoded(Unit(Dim)), EncodeRaises}

\* mutant: the fallback vector is one component short of the dimension
GetEmbeddingShortZeros(encoded) ==
    IF encoded.ok THEN encoded.vec ELSE Zeros(EmbedDim - 1)

\* get_embedding: the try/except around model.encode
GetEmbedding(encoded) == IF encoded.ok THEN encoded.vec ELSE Zeros(EmbedDim)

RECURSIVE AppendUnseen(_, _)
\* for x in ids: if x not in seen_ids: email_ids.append(x); seen_ids.add(x)
AppendUnseen(email_ids, ids) ==
    IF ids = << >> THEN email_ids
    ELSE AppendUnseen(IF InSeq(Head(ids), email_ids) THEN email_ids
                      ELSE Append(email_ids, Head(ids)),
                      Tail(ids))

\* mutant: the merged list is not cut to limit
PrefixWhole(email_ids, limit) == email_ids

\* email_ids[:limit] for limit >= 0
Prefix(email_ids, limit) ==
    SubSeq(email_ids, 1, IF limit < Len(email_ids) THEN limit ELSE Len(email_ids))

Found(raised, semantic, keyword, email_ids, result) ==
    [raised |-> raised, semantic |-> semantic, keyword |-> keyword,
     email_ids |-> email_ids, result |-> result]

\* a merge that appends the keyword candidates before the semantic ones
DbSearchKeywordFirst(d, mem, query, limit, encoded) ==
    Bind(Search(mem, GetEmbedding(encoded), limit * 2), LAMBDA semantic_results :
    Bind(SearchEmails(d, Letters(query), limit * 2), LAMBDA keyword_results :
    Bind(AppendUnseen(<< >>, [i \in 1..Len(semantic_results) |->
                                 semantic_results[i].email_id]),
         LAMBDA semantic_ids :
    IF \E i \in 1..Len(keyword_results) : keyword_results[i] = NoRecord
    THEN Found(TRUE, semantic_ids, keyword_results, << >>, << >>)
    ELSE
    Bind(Prefix(AppendUnseen([i \in 1..Len(keyword_results) |->
                                 keyword_results[i][1].id], semantic_ids),
                limit),
         LAMBDA email_ids :
    Found(FALSE, semantic_ids, keyword_results, email_ids,
          Hydrate(d, email_ids))))))

\* EmailDB.search(query, limit): email['id'] of a None among the keyword
\* results is a TypeError, and nothing catches it
DbSearch(d, mem, query, limit, encoded) ==
    Bind(Search(mem, GetEmbedding(encoded), limit * 2), LAMBDA semantic_results :
    Bind(SearchEmails(d, Letters(query), limit * 2), LAMBDA keyword_results :
    Bind(AppendUnseen(<< >>, [i \in 1..Len(semantic_results) |->
                                 semantic_results[i].email_id]),
         LAMBDA semantic_ids :
    IF \E i \in 1..Len(keyword_results) : keyword_results[i] = NoRecord
    THEN Found(TRUE, semantic_ids, keyword_results, << >>, << >>)
    ELSE
    Bind(Prefix(AppendUnseen(semantic_ids,
                             [i \in 1..Len(keyword_results) |->
                                 keyword_results[i][1].id]), limit),
         LAMBDA email_ids :
    Found(FALSE, semantic_ids, keyword_results, email_ids,
          Hydrate(d, email_ids))))))

\* the outcome of a call, with the return statement (path) it ended at
Ingested(d, mem, disk, result, raised, slot, crashed, path) ==
    [db |-> d, mem |-> mem, disk |-> disk, result |-> result,
     raised |-> raised, slot |-> slot, crashed |-> crashed, path |-> path]

\* mutant: the pipeline never takes the message to be stored already
AlreadyStoredNever(existing_email) == FALSE

\* if existing_email:
AlreadyStored(existing_email) == existing_email # NoRecord

\* mutant: every stored message is taken to have content
HasContentAlways(stored_email) == TRUE

\* has_content = stored_email.get('body_text') or stored_email.get('body_html')
HasContent(stored_email) ==
    stored_email.body_text # "" \/ stored_email.body_html # ""

\* mutant: the vector is inserted before the relational write, under the id
\* the row is going to get
DbStoreEmailVectorFirst(d, mem, disk, email_data, clock, fault, encoded, add_fails, done, stop) ==
    Bind(AddEmail(mem, disk, Len(d.emails) + 1, GetEmbedding(encoded),
                  [subject |-> Extracted[email_data].subject,
                   sender |-> Extracted[email_data].sender.email,
                   timestamp |-> ParseDate(Extracted[email_data].date_str, clock)],
                  add_fails, done), LAMBDA add :
    Bind(StorageStoreEmail(d, email_data, clock, fault), LAMBDA st :
        Ingested(st.db, add.mem, add.disk, st.result, st.raised, add.result,
                 FALSE, IF st.raised THEN "raised" ELSE "indexed")))

\* EmailDB.store_email
DbStoreEmail(d, mem, disk, email_data, clock, fault, encoded, add_fails, done, stop) ==
    Bind(GetEmailByMessageId(d, email_data.id), LAMBDA existing_email :
    IF AlreadyStored(existing_email)
    THEN Ingested(d, mem, disk, existing_email[1].id, FALSE, NoSlot, FALSE,
                  "duplicate")
    ELSE
    Bind(StorageStoreEmail(d, email_data, clock, fault), LAMBDA st :
    IF st.raised                \* except Exception: ... raise
    THEN Ingested(st.db, mem, disk, NULL, TRUE, NoSlot, FALSE, "raised")
    ELSE IF stop = "after_commit"
    THEN Ingested(st.db, mem, disk, NULL, FALSE, NoSlot, TRUE, "stopped")
    ELSE
    Bind(st.result, LAMBDA email_id :
    Bind(GetEmailById(st.db, email_id), LAMBDA stored_email :
    IF stored_email = NoRecord
    THEN Ingested(st.db, mem, disk, email_id, FALSE, NoSlot, FALSE,
                  "not_retrieved")
    ELSE IF ~HasContent(stored_email[1])
    THEN Ingested(st.db, mem, disk, email_id, FALSE, NoSlot, FALSE,
                  "no_content")
    ELSE
    Bind(AddEmail(mem, disk, email_id, GetEmbedding(encoded),
                  [subject |-> stored_email[1].subject,
                   sender |-> stored_email[1].sender_email,
                   timestamp |-> stored_email[1].timestamp],
                  add_fails, done), LAMBDA add :
    IF add.raised               \* except Exception: ... raise
    THEN Ingested(st.db, add.mem, add.disk, NULL, TRUE, NoSlot, FALSE,
                  "raised")
    ELSE IF stop = "in_save" /\ add.result # NoSlot
    THEN Ingested(st.db, add.mem, add.disk, NULL, FALSE, add.result, TRUE,
                  "stopped")
    ELSE Ingested(st.db, add.mem, add.disk, email_id, FALSE, add.result,
                  FALSE, IF add.result # NoSlot THEN "indexed" ELSE "not_indexed"))))))

----------------------------------------------------------------------------
(* The state machine. *)

Disk == Files(indexFile, metaFile, tmpIndexFile, tmpMetaFile)
Memory == Mem(index, metadata)

\* the arguments of a call that has none
NoPayload == Msg("", "", "", << >>, << >>, Empty(""))
NoEnv == [fault |-> "none", encoded |-> [ok |-> FALSE, vec |-> << >>],
          add_fails |-> FALSE, done |-> 4, stop |-> "none"]

\* the part of the environment a call that ended at `path` has met
Observed(env, path) ==
    IF path = "raised" THEN [NoEnv EXCEPT !.fault = env.fault]
    ELSE IF path = "not_indexed" THEN [NoEnv EXCEPT !.add_fails = env.add_fails]
    ELSE IF path = "indexed" \/ (path = "stopped" /\ env.stop = "in_save") THEN env
    ELSE IF path = "stopped" THEN [NoEnv EXCEPT !.stop = env.stop]
    ELSE NoEnv

Call(op, payload, env, eid, result, raised, crashed, slot, path) ==
    [op |-> op, payload |-> payload, env |-> env, eid |-> eid,
     result |-> result, raised |-> raised, crashed |-> crashed,
     slot |-> slot, path |-> path]

\* a VectorStore object: its index and metadata, index.ntotal when it was
\* built, the slot ids its add_email returned and whether the _save of the
\* last of them completed
Object(exists, idx, meta, size, slots, saved) ==
    [up |-> exists, index |-> idx, metadata |-> meta, loadedSize |-> size,
     issued |-> slots, persisted |-> saved]

NoObject == Object(FALSE, << >>, << >>, 0, << >>, FALSE)

Init ==
    /\ db = EmptyDb
    /\ now = 1
    /\ up = TRUE
    /\ index = << >>
    /\ metadata = << >>
    /\ indexFile = AbsentFile
    /\ metaFile = AbsentFile
    /\ tmpIndexFile = AbsentFile
    /\ tmpMetaFile = AbsentFile
    /\ loadedSize = 0
    /\ issued = << >>
    /\ unsaved = {}
    /\ removed = {}
    /\ reinserted = {}
    /\ last = Call("init", NoPayload, NoEnv, NULL, NULL, FALSE, FALSE, NoSlot, "")
    /\ answer = << >>
    /\ other = NoObject
    /\ deleted = {}

SetDisk(disk) ==
    /\ indexFile' = disk.index
    /\ metaFile' = disk.meta
    /\ tmpIndexFile' = disk.tmpIndex
    /\ tmpMetaFile' = disk.tmpMeta

\* the end of the process: the VectorStore object is gone, the files stay
Down ==
    /\ up' = FALSE
    /\ index' = << >>
    /\ metadata' = << >>
    /\ issued' = << >>
    /\ unsaved' = {}
    /\ removed' = {}
    /\ reinserted' = {}
    /\ loadedSize' = 0

\* EmailDB.store_email(email_data)
Ingest(email_data, fault, encoded, add_fails, done, stop) ==
    /\ up
    /\ now < MaxCalls + 1
    /\ answer' = << >>
    /\ UNCHANGED other
    /\ \E r \in {DbStoreEmail(db, Memory, Disk, email_data, now, fault, encoded,
                            add_fails, done, stop)} :
           /\ db' = r.db
           /\ now' = now + 1
           /\ SetDisk(r.disk)
           /\ last' = Call("ingest", email_data,
                           Observed([fault |-> fault, encoded |-> encoded,
                                     add_fails |-> add_fails, done |-> done,
                                     stop |-> stop], r.path),
                           NULL, r.result, r.raised, r.crashed, r.slot, r.path)
           /\ deleted' = IF r.slot # NoSlot THEN deleted \ {r.result}
                         ELSE deleted
           /\ IF r.crashed THEN Down
              ELSE /\ up' = TRUE
                   /\ index' = r.mem.index
                   /\ metadata' = r.mem.metadata
                   /\ issued' = IF r.slot # NoSlot THEN Append(issued, r.slot)
                                ELSE issued
                   /\ unsaved' = IF r.slot # NoSlot /\ done < 4
                                 THEN unsaved \cup {r.slot}
                                 ELSE unsaved
                   /\ reinserted' = IF r.slot # NoSlot
                                    THEN reinserted \cup ({r.result} \cap removed)
                                    ELSE reinserted
                   /\ UNCHANGED removed
                   /\ UNCHANGED loadedSize

\* EmailStorage.store_email(email_data), called without the pipeline
Upsert(email_data, fault) ==
    /\ up
    /\ now < MaxCalls + 1
    /\ answer' = << >>
    /\ \E r \in {StorageStoreEmail(db, email_data, now, fault)} :
           /\ db' = r.db
           /\ last' = Call("upsert", email_data,
                           Observed([NoEnv EXCEPT !.fault = fault], r.path),
                           NULL, r.result, r.raised, FALSE, NoSlot, r.path)
    /\ now' = now + 1
    /\ UNCHANGED <<up, memVars, diskVars, histVars, other, deleted>>

\* VectorStore.delete_email(email_id); done: what _save_metadata completes
Delete(email_id, done, crash) ==
    /\ up
    /\ answer' = << >>
    /\ \E r \in {DeleteEmail(Memory, Disk, email_id, done)} :
           /\ SetDisk(r.disk)
           /\ last' = Call("delete", NoPayload, [NoEnv EXCEPT !.done = done],
                           email_id, r.result, FALSE, crash, NoSlot, "")
           /\ deleted' = IF r.result > 0 /\ ~crash
                         THEN deleted \cup {email_id}
                         ELSE deleted
           /\ IF crash THEN Down
              ELSE /\ up' = TRUE
                   /\ index' = r.mem.index
                   /\ metadata' = r.mem.metadata
                   /\ removed' = removed \cup {email_id}
                   /\ reinserted' = reinserted \ {email_id}
                   /\ UNCHANGED <<issued, unsaved, loadedSize>>
    /\ UNCHANGED <<db, now, other>>

\* the process is killed between two calls
Crash ==
    /\ up
    /\ Down
    /\ answer' = << >>
    /\ last' = Call("crash", NoPayload, NoEnv, NULL, NULL, FALSE, TRUE, NoSlot, "")
    /\ UNCHANGED <<db, now, diskVars, other, deleted>>

\* a new process: VectorStore.__init__ and its _initialize_index
Restart ==
    /\ ~up
    /\ up' = TRUE
    /\ \E m \in {InitializeIndex(Disk)} :
           /\ index' = m.index
           /\ metadata' = m.metadata
           /\ loadedSize' = Len(m.index)
    /\ issued' = << >>
    /\ unsaved' = {}
    /\ removed' = {}
    /\ reinserted' = {}
    /\ answer' = << >>
    /\ last' = Call("restart", NoPayload, NoEnv, NULL, NULL, FALSE, FALSE, NoSlot, "")
    /\ UNCHANGED <<db, now, diskVars, other, deleted>>


Env(fault, encoded, add_fails, done, stop) ==
    [fault |-> fault, encoded |-> encoded, add_fails |-> add_fails,
     done |-> done, stop |-> stop]

\* What the environment does to one call of the pipeline: a statement of the
\* write raises, or index.add raises, or the encoder answers or raises and
\* _save fails at its second step or not at all.  An input that a call cannot
\* observe is fixed (a call whose write fails reaches neither the encoder nor
\* the index), so that no two elements give the same call.
Envs ==
    {Env(f, EncodeRaises, FALSE, 4, "none") : f \in Faults \ {"none"}}
    \cup {Env("none", EncodeRaises, TRUE, 4, "none")}
    \cup {Env("none", e, FALSE, n, "none") : e \in ModelOutputs, n \in {1, 4}}

IngestIn(email_data, v) ==
    Ingest(email_data, v.fault, v.encoded, v.add_fails, v.done, v.stop)

\* the ingestion pipeline and the relational store under every payload and
\* every failure of a statement, with the index kept in one process
Next ==
    \/ \E p \in Payloads, v \in Envs : IngestIn(p, v)
    \/ \E p \in Payloads, f \in Faults : Upsert(p, f)

Spec == Init /\ [][Next]_vars

\* the payloads of the persistence specification: those that get a vector
IndexedPayloads == {PayloadA, PayloadMulti}

\* its calls: the write to SQLite succeeds, and _save is interrupted by an
\* exception or by the end of the process (after all four steps the end of
\* the process is the action Crash); the encoder is the same function of
\* the text in every call
ModelEncode(email_data) ==
    IF email_data = PayloadA THEN Encoded(Scale(2, Unit(1))) ELSE Encoded(Unit(Dim))

IndexEnvs(email_data) ==
    {Env("none", ModelEncode(email_data), FALSE, n, "none") : n \in 0..4}
    \cup {Env("none", ModelEncode(email_data), FALSE, n, "in_save") : n \in 0..3}
    \cup {Env("none", ModelEncode(email_data), TRUE, 4, "none"),
          Env("none", ModelEncode(email_data), FALSE, 4, "after_commit")}

\* the vector index and its files under every interruption of a write and
\* every end of the process
NextVS ==
    \/ \E p \in IndexedPayloads : \E v \in IndexEnvs(p) : IngestIn(p, v)
    \/ \E m \in 1..Cardinality(IndexedPayloads), n \in 0..1, c \in BOOLEAN :
          Delete(m, n, c)
    \/ Crash
    \/ Restart

SpecVS == Init /\ [][NextVS]_vars

\* the email_metadata of a call of add_email that passes none
NoMetadata == [subject |-> "", sender |-> << >>, timestamp |-> Stamp(0, Naive)]

\* VectorStore.add_email(email_id, embedding) called on the object itself
Add(email_id, embedding, add_fails, done) ==
    /\ up
    /\ Len(index) < MaxCalls
    /\ answer' = << >>
    /\ \E r \in {AddEmail(Memory, Disk, email_id, embedding, NoMetadata,
                        add_fails, done)} :
           /\ SetDisk(r.disk)
           /\ last' = Call("add", NoPayload,
                           Env("none", Encoded(embedding), add_fails, done, "none"),
                           email_id, NULL, r.raised, FALSE, r.result, "")
           /\ deleted' = IF r.result # NoSlot THEN deleted \ {email_id}
                         ELSE deleted
           /\ index' = r.mem.index
           /\ metadata' = r.mem.metadata
           /\ issued' = IF r.result # NoSlot THEN Append(issued, r.result)
                        ELSE issued
           /\ unsaved' = IF r.result # NoSlot /\ done < 4
                         THEN unsaved \cup {r.result}
                         ELSE unsaved
           /\ reinserted' = IF r.result # NoSlot
                            THEN reinserted \cup ({email_id} \cap removed)
                            ELSE reinserted
    /\ UNCHANGED <<db, now, up, removed, loadedSize, other>>

\* VectorStore.search(query_embedding, k) called on the object itself
Find(query_embedding, k) ==
    /\ up
    /\ \E r \in {SearchCall(Memory, query_embedding, k)} :
           /\ last' = Call("search", NoPayload,
                           [NoEnv EXCEPT !.encoded = Encoded(query_embedding)],
                           k, NULL, r.raised, FALSE, NoSlot, "")
           /\ answer' = r.result
    /\ UNCHANGED <<db, now, up, memVars, diskVars, histVars, other, deleted>>

\* vectors shorter than the dimension, of the dimension and longer, and the
\* empty one
ShortVector == << 2 >>
ExactVector == Scale(3, Unit(Dim))
LongVector == Unit(1) \o << 7 >>
ApiVectors == {<< >>, ShortVector, ExactVector, LongVector}

\* the calls of the VectorStore API on one object
NextApi ==
    \/ \E m \in 1..2, v \in ApiVectors, f \in BOOLEAN : Add(m, v, f, 4)
    \/ \E q \in ApiVectors, k \in 0..MaxK : Find(q, k)
    \/ \E m \in 1..2 : Delete(m, 1, FALSE)

SpecApi == Init /\ [][NextApi]_vars

\* vectors with a component that is not finite, and one without
NonFiniteVectors ==
    {<< 1, PosInf >>, << NaN, 2 >>, << NegInf, 0 >>, << 3, NaN, PosInf >>,
     ExactVector}

\* add_email and search on vectors with NaN and infinite components
NextNumeric ==
    \/ \E m \in 1..2, v \in NonFiniteVectors : Add(m, v, FALSE, 4)
    \/ \E q \in {Unit(1), ExactVector}, k \in 1..MaxK : Find(q, k)

SpecNumeric == Init /\ [][NextNumeric]_vars

\* EmailDB.search(query, limit)
HybridSearch(query, limit, encoded) ==
    /\ up
    /\ \E r \in {DbSearch(db, Memory, query, limit, encoded)} :
           /\ last' = Call("hybrid", NoPayload,
                           [NoEnv EXCEPT !.encoded = encoded],
                           limit, NULL, r.raised, FALSE, NoSlot, query)
           /\ answer' = r.result
    /\ UNCHANGED <<db, now, up, memVars, diskVars, histVars, other, deleted>>

\* EmailDB.get_thread(thread_id)
GetThread(thread_id) ==
    /\ up
    /\ last' = Call("thread", NoPayload, NoEnv, NULL, NULL, FALSE, FALSE,
                    NoSlot, thread_id)
    /\ answer' = GetThreadEmails(db, thread_id)
    /\ UNCHANGED <<db, now, up, memVars, diskVars, histVars, other, deleted>>

\* the payloads of the read specification: the three messages of thread t3,
\* a message without a sender, one without a body and one without a date
ReadPayloads ==
    ThreadPayloads \cup {PayloadNoFrom, PayloadNoBody, PayloadMulti}

\* the encoder is the same function of the text in every call
ReadEncode(email_data) ==
    IF email_data = PayloadT1 THEN Encoded(Unit(1))
    ELSE IF email_data = PayloadT3 THEN Encoded(Scale(2, Unit(1)))
    ELSE Encoded(Unit(Dim))

\* the queries: one that matches subjects only, one that matches bodies,
\* addresses and names, one that matches nothing; and what the encoder
\* does with a query
ReadQueries == {"hi", "b", "zz"}
QueryOutputs == {Encoded(Unit(1)), Encoded(Unit(Dim)), EncodeRaises}
MaxLimit == 2

\* ingestion without failures, and the reads of the pipeline
NextRead ==
    \/ \E p \in ReadPayloads :
          IngestIn(p, Env("none", ReadEncode(p), FALSE, 4, "none"))
    \/ \E q \in ReadQueries, n \in 1..MaxLimit, e \in QueryOutputs :
          HybridSearch(q, n, e)
    \/ \E t \in {"t1", "t3"} : GetThread(t)

SpecRead == Init /\ [][NextRead]_vars

\* the calls of an insertion of the crash specification: _save is
\* interrupted after `done` steps by an exception or by the end of the
\* process
CrashEnvs(email_data) ==
    {Env("none", ReadEncode(email_data), FALSE, n, "none") : n \in 0..4}
    \cup {Env("none", ReadEncode(email_data), FALSE, n, "in_save") : n \in 0..3}

\* three insertions, each interrupted or not inside _save, deletions, and
\* the processes started after the end of a process
NextCrash ==
    \/ \E p \in ThreadPayloads : \E v \in CrashEnvs(p) : IngestIn(p, v)
    \/ \E m \in 1..Cardinality(ThreadPayloads) : Delete(m, 1, FALSE)
    \/ Restart

SpecCrash == Init /\ [][NextCrash]_vars

\* the query vectors of the search specification: two of the dimension of
\* the index and a shorter one
FindVectors == {Unit(1), Unit(Dim), ShortVector}

\* the payloads of the search specification: two messages that get a vector
\* and one without a sender
SearchPayloads == {PayloadT1, PayloadT3, PayloadNoFrom}

\* ingestion without failures, EmailDB.search with every limit from 0 and
\* VectorStore.search with every k from 0
NextSearch ==
    \/ \E p \in SearchPayloads :
          IngestIn(p, Env("none", ReadEncode(p), FALSE, 4, "none"))
    \/ \E q \in ReadQueries, n \in 0..MaxLimit, e \in QueryOutputs :
          HybridSearch(q, n, e)
    \/ \E q \in FindVectors, k \in 0..MaxK : Find(q, k)

SpecSearch == Init /\ [][NextSearch]_vars

\* open raises in _save_metadata
OpenRaises == -1

\* deletions whose write of the metadata file completes, is interrupted or
\* does not start, and the processes that follow
NextDurable ==
    \/ \E p \in IndexedPayloads :
          IngestIn(p, Env("none", ModelEncode(p), FALSE, 4, "none"))
    \/ \E m \in 1..Cardinality(IndexedPayloads), n \in OpenRaises..1 :
          Delete(m, n, FALSE)
    \/ Crash
    \/ Restart

SpecDurable == Init /\ [][NextDurable]_vars

\* vectors in the index of an object of the two-object specification
MaxVectors == 2

\* VectorStore() of a second request: GmailDBIntegration() builds its own
\* EmailDB and VectorStore on the same directory (app.py:177)
Open ==
    /\ \E m \in {InitializeIndex(Disk)} :
           other' = Object(TRUE, m.index, m.metadata, Len(m.index), << >>, FALSE)
    /\ last' = Call("open", NoPayload, NoEnv, NULL, NULL, FALSE, FALSE, NoSlot, "")
    /\ answer' = << >>
    /\ UNCHANGED <<db, now, up, memVars, diskVars, histVars, deleted>>

\* VectorStore.add_email(email_id, embedding) called on the second object
AddOther(email_id, embedding, done) ==
    /\ other.up
    /\ Len(other.index) < MaxVectors
    /\ \E r \in {AddEmail(Mem(other.index, other.metadata), Disk, email_id,
                        embedding, NoMetadata, FALSE, done)} :
           /\ SetDisk(r.disk)
           /\ last' = Call("add_other", NoPayload,
                           Env("none", Encoded(embedding), FALSE, done, "none"),
                           email_id, NULL, r.raised, FALSE, r.result, "")
           /\ other' = Object(TRUE, r.mem.index, r.mem.metadata,
                              other.loadedSize,
                              IF r.result # NoSlot
                              THEN Append(other.issued, r.result)
                              ELSE other.issued,
                              r.result # NoSlot /\ done = 4)
           /\ deleted' = IF r.result # NoSlot THEN deleted \ {email_id}
                         ELSE deleted
    /\ answer' = << >>
    /\ UNCHANGED <<db, now, up, memVars, histVars>>

\* the message ids of the two-object specification
TwoIds == 1..3

\* two VectorStore objects on one directory, each call of add_email run to
\* its end before the next, _save failing at its second step or not at all
NextTwo ==
    \/ \E m \in TwoIds, n \in {1, 4} :
          Len(index) < MaxVectors /\ Add(m, ExactVector, FALSE, n)
    \/ \E m \in TwoIds, n \in {1, 4} : AddOther(m, ExactVector, n)
    \/ Open
    \/ Crash
    \/ Restart

SpecTwo == Init /\ [][NextTwo]_vars

\* EmailStorage.store_email on the payloads whose recipient headers are to
\* be parsed
NextHeaders == \E p \in HeaderPayloads : Upsert(p, "none")

SpecHeaders == Init /\ [][NextHeaders]_vars

\* EmailStorage.store_email on the payloads with several body parts
NextBodies == \E p \in BodyPayloads : Upsert(p, "none")

SpecBodies == Init /\ [][NextBodies]_vars

----------------------------------------------------------------------------
(* Claims about the ingestion pipeline and the relational store (Spec). *)

\* the row id of the message with the payload's provider id, before the call
RowOf(d, email_data) == FindId(d.emails, "message_id", email_data.id)

\* C1: ingesting a provider message id that is already stored leaves one row
\* for it in the messages table, returns the id of that row (the id the
\* first ingestion returned) and leaves the vector index and its metadata as
\* they were; no two rows ever share a provider message id.
C1_IdempotentIngestion ==
    /\ [](\A i, j \in 1..Len(db.emails) :
             db.emails[i].message_id = db.emails[j].message_id => i = j)
    /\ [][last'.op = "ingest" =>
            /\ (~last'.raised /\ ~last'.crashed) =>
                   /\ last'.result \in 1..Len(db'.emails)
                   /\ db'.emails[last'.result].message_id = last'.payload.id
            /\ RowOf(db, last'.payload) # NULL =>
                   /\ last'.result = RowOf(db, last'.payload)
                   /\ ~last'.raised
                   /\ db'.emails = db.emails
                   /\ index' = index
                   /\ metadata' = metadata]_vars

\* PayloadA2 ingested when PayloadA, of the same provider id, is stored and
\* has its vector
C1_Witness ==
    /\ last.op = "ingest"
    /\ last.path = "duplicate"
    /\ last.payload = PayloadA2
    /\ last.result = 1
    /\ Len(db.emails) = 1
    /\ db.emails[1].subject = "Hi"
    /\ Len(index) = 1
    /\ DOMAIN metadata = {0}

\* C2: EmailStorage.store_email called with a provider message id that is
\* already stored changes no table (no thread, user, recipient, attachment,
\* label or message-label row is added, no last_updated is refreshed, the
\* message row is as it was), whatever the new payload holds.
C2_DuplicateUpsertWritesNothing ==
    [][(last'.op = "upsert" /\ RowOf(db, last'.payload) # NULL) =>
          /\ db' = db
          /\ last'.result = RowOf(db, last'.payload)
          /\ ~last'.raised]_vars

\* PayloadA2 (another thread, sender, recipients, labels, attachment) upserted
\* onto the stored PayloadA, later than the thread was last updated
C2_Witness ==
    /\ last.op = "upsert"
    /\ last.path = "duplicate"
    /\ last.payload = PayloadA2
    /\ Len(db.emails) = 1
    /\ db.emails[1].subject = "Hi"
    /\ Len(db.threads) = 1
    /\ db.threads[1].last_updated < now - 1

\* C3: when a statement of the first insertion of a message fails, the
\* database after the call is the database before it and the call raises.
C3_FailedWriteRolledBack ==
    [][(/\ last'.op \in {"upsert", "ingest"}
        /\ RowOf(db, last'.payload) = NULL
        /\ ~WriteUnit(db, last'.payload, now, last'.env.fault).ok) =>
          /\ db' = db
          /\ last'.raised]_vars

\* the insertion of the labels fails after the thread of an earlier message
\* was refreshed and a user, the message, a recipient were inserted
C3_Witness ==
    /\ last.op = "upsert"
    /\ last.raised
    /\ last.env.fault = "labels"
    /\ last.payload = PayloadNoFrom
    /\ Len(db.emails) = 1
    /\ Len(db.threads) = 1
    /\ db.threads[1].last_updated < now - 1
    /\ Len(db.users) = 2

\* C4: get_email_by_id and get_email_by_message_id return the hydrated record
\* of every message row, also of one stored without a sender, and None
\* exactly when there is no row.
C4_EveryRowHydrates ==
    /\ \A i \in 1..Len(db.emails) :
          /\ GetEmailById(db, i) # NoRecord
          /\ GetEmailByMessageId(db, db.emails[i].message_id) # NoRecord
    /\ \A i \in (0..(MaxCalls + 1)) \ (1..Len(db.emails)) :
          GetEmailById(db, i) = NoRecord

\* C5: a message row that has no vector record (never created, deleted or
\* lost) is retrieved by get_email_by_id all the same.
C5_RetrievedWithoutVector ==
    \A i \in 1..Len(db.emails) :
        SlotsOf(metadata, i) = {} => GetEmailById(db, i) # NoRecord

\* C6: a call of the pipeline whose relational write succeeded returns the
\* id of the message row and does not raise, whatever the encoder, index.add
\* and _save did.
C6_IndexFailuresSwallowed ==
    (last.op = "ingest" /\ RowOf(db, last.payload) # NULL) =>
        /\ ~last.raised
        /\ last.result = RowOf(db, last.payload)

\* index.add raised in a call that had stored its message
C6_Witness ==
    /\ last.op = "ingest"
    /\ last.path = "not_indexed"
    /\ last.env.add_fails
    /\ last.result = Len(db.emails)
    /\ Len(index) = 0

----------------------------------------------------------------------------
(* Claims about the vector index and its files (SpecVS). *)

\* the query vectors and the k of the searches the claims range over
Queries == [1..Dim -> {0, 1}] \cup {<< 1 >>}
Ks == 0..MaxK

ResultIds(results) == {results[i].email_id : i \in 1..Len(results)}

\* C7 as it is stated: a message id passed to delete_email is returned by no
\* later search of that VectorStore object, for any query and any k, and
\* delete_email leaves index.ntotal as it was.
C7_DeletedNeverReturnedAgain ==
    /\ [](up => \A m \in removed : \A q \in Queries, k \in Ks :
                    m \notin ResultIds(Search(Memory, q, k)))
    /\ [][(last'.op = "delete" /\ ~last'.crashed) =>
              Len(index') = Len(index)]_vars

\* C7: a message id passed to delete_email is returned by no later search of
\* that VectorStore object, for any query and any k, until add_email indexes
\* that message id again, and delete_email leaves index.ntotal as it was.
C7_DeletedNotReturned ==
    /\ [](up => \A m \in removed \ reinserted : \A q \in Queries, k \in Ks :
                    m \notin ResultIds(Search(Memory, q, k)))
    /\ [][(last'.op = "delete" /\ ~last'.crashed) =>
              Len(index') = Len(index)]_vars

\* the message of slot 0 was deleted, the message of slot 1 is still found
C7_Witness ==
    /\ up
    /\ last.op = "delete"
    /\ last.result = 1
    /\ last.eid \in removed \ reinserted
    /\ Len(index) = 2
    /\ DOMAIN metadata = {1}
    /\ ResultIds(Search(Memory, Unit(1), MaxK)) = {metadata[1].email_id}

\* C8: in one VectorStore object every add_email that returns a slot id
\* returns index.ntotal as it was before the call, the slot ids returned are
\* consecutive from the size the index had when the object was built (0 for
\* a new index), and none is returned twice, deletions or not.
C8_SlotsDense ==
    /\ [](up => /\ \A i \in 1..Len(issued) : issued[i] = loadedSize + i - 1
                /\ Len(index) = loadedSize + Len(issued))
    /\ [][(last'.op = "ingest" /\ last'.slot # NoSlot) =>
              last'.slot = Len(index)]_vars

\* slot 1 was assigned after the entry of slot 0 had been deleted
C8_Witness ==
    /\ up
    /\ last.op = "ingest"
    /\ last.slot = 1
    /\ issued = << 0, 1 >>
    /\ DOMAIN metadata = {1}
    /\ removed # {}

\* C9: an add_email, ended by the end of the process at any step of _save or
\* not, leaves each of the two primary files either as it was or complete
\* and holding the index, respectively the metadata, after the insertion.
C9_SaveLeavesWholeFiles ==
    [][last'.op = "ingest" =>
          /\ indexFile' # indexFile =>
                 /\ indexFile'.state = "complete"
                 /\ Len(indexFile'.data) = Len(index) + 1
                 /\ SubSeq(indexFile'.data, 1, Len(index)) = index
          /\ metaFile' # metaFile =>
                 /\ metaFile'.state = "complete"
                 /\ DOMAIN metaFile'.data = DOMAIN metadata \cup {Len(index)}
                 /\ \A x \in DOMAIN metadata :
                        metaFile'.data[x] = metadata[x]]_vars

\* the process ended between the two os.replace of the second insertion: the
\* index file is the new one, the metadata file the previous one
C9_Witness ==
    /\ ~up
    /\ last.op = "ingest"
    /\ last.crashed
    /\ last.env.done = 3
    /\ indexFile.state = "complete"
    /\ Len(indexFile.data) = 2
    /\ metaFile.state = "complete"
    /\ DOMAIN metaFile.data = {0}
    /\ tmpMetaFile.state = "complete"

\* C10: a delete_email, ended by the end of the process or not, leaves the
\* metadata file as it was or complete (the claim: it is written to a
\* temporary file that is renamed).
C10_DeleteWritesMetadataAtomically ==
    [][last'.op = "delete" =>
          \/ metaFile' = metaFile
          \/ metaFile'.state = "complete"]_vars

\* C11: an add_email that returns a slot id has appended the vector and has
\* left both primary files complete, holding the index and the metadata of
\* the object (the claim: it returns None whenever persisting fails).
C11_SlotOnlyWhenPersisted ==
    [][(last'.op = "ingest" /\ ~last'.crashed /\ last'.slot # NoSlot) =>
          /\ Len(index') = Len(index) + 1
          /\ indexFile' = Complete(index')
          /\ metaFile' = Complete(metadata')]_vars

\* C12: a new VectorStore holds the index and the metadata of the two files
\* when both are there and readable; when either is missing or cut short it
\* holds an empty index and empty metadata, both, and __init__ does not raise.
C12_LoadBothOrNeither ==
    [][last'.op = "restart" =>
          /\ up' /\ ~last'.raised
          /\ IF indexFile.state = "complete" /\ metaFile.state = "complete"
             THEN index' = indexFile.data /\ metadata' = metaFile.data
             ELSE index' = << >> /\ metadata' = << >>]_vars

\* the index file holds a vector and the metadata file was cut short by an
\* interrupted delete_email: the new object is empty
C12_Witness ==
    /\ last.op = "restart"
    /\ indexFile.state = "complete"
    /\ Len(indexFile.data) = 1
    /\ metaFile.state = "partial"
    /\ index = << >>
    /\ metadata = << >>

\* what a VectorStore built now on the directory would hold
Reloaded(disk) == InitializeIndex(disk)

\* C13: when the files hold what the object holds, after an add_email whose
\* _save completes a VectorStore built on the directory answers every search,
\* for every query and every k, with the same ids in the same order as the
\* object that made the insertion (by induction from the empty directory:
\* after N insertions with every persistence step succeeding).
C13_ReloadSameResults ==
    [][(/\ last'.op = "ingest" /\ ~last'.crashed /\ last'.slot # NoSlot
        /\ last'.env.done = 4
        /\ Reloaded(Disk) = Memory) =>
          /\ Reloaded(Files(indexFile', metaFile', tmpIndexFile', tmpMetaFile'))
                 = Mem(index', metadata')
          /\ \A q \in Queries, k \in Ks :
                 Search(Reloaded(Files(indexFile', metaFile', tmpIndexFile',
                                       tmpMetaFile')), q, k)
                     = Search(Mem(index', metadata'), q, k)]_vars

\* two insertions, both persisted: the object and a reloaded one find both
C13_Witness ==
    /\ up
    /\ last.op = "ingest"
    /\ last.env.done = 4
    /\ issued = << 0, 1 >>
    /\ Len(Search(Memory, Unit(1), MaxK)) = 2
    /\ Search(Reloaded(Disk), Unit(1), MaxK) = Search(Memory, Unit(1), MaxK)
    /\ Search(Memory, Unit(1), MaxK)[1].email_id
           # Search(Memory, Unit(Dim), MaxK)[1].email_id

----------------------------------------------------------------------------
(* Claims about the calls of the VectorStore API (SpecApi). *)

\* the first Dim components of v, zeros after its end
FirstD(v) == [i \in 1..Dim |-> IF i <= Len(v) THEN v[i] ELSE 0]

\* C14: add_email of a non-empty vector of any length, when index.add does
\* not raise, returns a slot id and appends a vector of exactly Dim
\* components: the first Dim components of the argument, or the argument
\* followed by zeros, scaled to unit length.
C14_AnyLengthStoredWithD ==
    [][(last'.op = "add" /\ last'.env.encoded.vec # << >>
        /\ ~last'.env.add_fails) =>
          /\ last'.slot = Len(index)
          /\ Len(index') = Len(index) + 1
          /\ Len(index'[Len(index')]) = Dim
          /\ index'[Len(index')] = Normalize(FirstD(last'.env.encoded.vec))]_vars

\* a vector of Dim + 1 components was inserted after one of fewer than Dim
C14_Witness ==
    /\ last.op = "add"
    /\ last.env.encoded.vec = LongVector
    /\ last.slot = 1
    /\ index = << Unit(1), Unit(1) >>
    /\ Len(LongVector) > Dim
    /\ \E x \in DOMAIN metadata : metadata[x].email_id = 2

\* C15: search with a query of any length answers as search with the first
\* Dim components of the query, zeros after its end (the claim: the rule of
\* add_email is applied to the query).
C15_QueryResizedLikeInsert ==
    [][last'.op = "search" =>
          answer' = Search(Memory, FirstD(last'.env.encoded.vec),
                           last'.eid)]_vars

----------------------------------------------------------------------------
(* Claims about the reads of the pipeline (SpecRead). *)

\* the ids of the records of a result list that holds no None
IdsOf(records) == [i \in 1..Len(records) |-> records[i][1].id]

\* the semantic candidates of a call, in similarity order
SemanticIds(encoded, limit) ==
    Bind(Search(Memory, GetEmbedding(encoded), limit * 2), LAMBDA hits :
        [i \in 1..Len(hits) |-> hits[i].email_id])

\* the keyword candidates of a call: the limit * 2 newest matching rows
KeywordIds(query, limit) ==
    Prefix(OrderByTimestamp(db, {i \in 1..Len(db.emails) :
                                    Matches(db, i, Letters(query))}, TRUE),
           limit * 2)

\* the semantic candidates followed by the keyword candidates not among them
Merged(semantic, keyword) ==
    semantic \o SelectSeq(keyword, LAMBDA x : ~InSeq(x, semantic))

\* the call that ended in this state is a hybrid search that returned
Returned == last.op = "hybrid" /\ ~last.raised

\* C16: hybrid search returns the records of the first `limit` ids of the
\* semantic candidates in similarity order followed by the keyword
\* candidates not among them; when the two candidate sets are disjoint and
\* each has at least `limit` entries, the result is the first `limit`
\* semantic ids.
C16_SemanticFirstMerge ==
    Returned =>
        /\ \A i \in 1..Len(answer) : answer[i] # NoRecord
        /\ IdsOf(answer) =
              Prefix(Merged(SemanticIds(last.env.encoded, last.eid),
                            KeywordIds(last.path, last.eid)), last.eid)
        /\ (/\ Len(SemanticIds(last.env.encoded, last.eid)) >= last.eid
            /\ Len(KeywordIds(last.path, last.eid)) >= last.eid
            /\ \A i \in 1..Len(KeywordIds(last.path, last.eid)) :
                  ~InSeq(KeywordIds(last.path, last.eid)[i],
                         SemanticIds(last.env.encoded, last.eid)))
           => IdsOf(answer) =
                 Prefix(SemanticIds(last.env.encoded, last.eid), last.eid)

C16_Witness ==
    /\ Returned
    /\ last.eid = 1
    /\ Len(SemanticIds(last.env.encoded, 1)) = 2
    /\ Len(KeywordIds(last.path, 1)) = 1
    /\ ~InSeq(KeywordIds(last.path, 1)[1], SemanticIds(last.env.encoded, 1))
    /\ IdsOf(answer) = << SemanticIds(last.env.encoded, 1)[1] >>
    /\ SemanticIds(last.env.encoded, 1)[1] = 2

\* C17: hybrid search never raises: it returns a list in every state that
\* ingestion reaches, a state with a keyword-matching message without a
\* sender included, and when the semantic arm yields nothing the keyword
\* matches are returned.
C17_SearchNeverRaises ==
    last.op = "hybrid" =>
        /\ ~last.raised
        /\ SemanticIds(last.env.encoded, last.eid) = << >> =>
              IdsOf(answer) = Prefix(KeywordIds(last.path, last.eid), last.eid)

\* C18: every element of the list that hybrid search returns is a full
\* message record, never None, and the records are in the order of the
\* merged id list.
C18_FullRecordsInMergeOrder ==
    Returned =>
        /\ Len(answer) =
              Len(Prefix(Merged(SemanticIds(last.env.encoded, last.eid),
                                KeywordIds(last.path, last.eid)), last.eid))
        /\ \A i \in 1..Len(answer) :
              /\ answer[i] # NoRecord
              /\ answer[i][1].id =
                    Merged(SemanticIds(last.env.encoded, last.eid),
                           KeywordIds(last.path, last.eid))[i]
              /\ answer[i][1].id \in 1..Len(db.emails)
              /\ answer[i][1].message_id = db.emails[answer[i][1].id].message_id
              /\ answer[i][1].subject = db.emails[answer[i][1].id].subject
              /\ answer[i][1].body_text = db.emails[answer[i][1].id].body_text
              /\ answer[i][1].sender_email # << >>
              /\ answer[i][1].gmail_thread_id # ""

C18_Witness ==
    /\ Returned
    /\ Len(answer) = 2
    /\ Len(SemanticIds(last.env.encoded, last.eid)) = 1
    /\ answer[1][1].message_id = "m6"
    /\ answer[2][1].message_id = "m4"
    /\ answer[1][1].id > answer[2][1].id

\* the provider ids of the messages stored in a thread
StoredIn(thread_id) ==
    {db.emails[i].message_id :
        i \in {j \in 1..Len(db.emails) :
                  /\ db.emails[j].thread_id \in 1..Len(db.threads)
                  /\ db.threads[db.emails[j].thread_id].thread_id = thread_id}}

\* C19: for the thread whose three messages were sent at the instants
\* T1 < T2 < T3 (m5, m6, m7), get_thread returns exactly these messages in
\* the order T1, T2, T3, whatever the order in which they were ingested.
C19_ThreadInTimestampOrder ==
    (/\ last.op = "thread"
     /\ last.path = "t3"
     /\ StoredIn("t3") = {"m5", "m6", "m7"})
    => /\ Len(answer) = 3
       /\ \A i \in 1..3 : answer[i] # NoRecord
       /\ [i \in 1..3 |-> answer[i][1].message_id] = << "m5", "m6", "m7" >>

----------------------------------------------------------------------------
(* Claims about the rows of the relational store (Spec). *)

\* C20: after any sequence of ingestions every message row references one
\* existing thread row and one existing sender row (neither reference is
\* NULL or dangling), and every recipient row references an existing message
\* and an existing user.
C20_ReferencesExist ==
    /\ \A i \in 1..Len(db.emails) :
          /\ db.emails[i].thread_id \in 1..Len(db.threads)
          /\ db.emails[i].sender_id \in 1..Len(db.users)
    /\ \A i \in 1..Len(db.recipients) :
          /\ db.recipients[i].email_id \in 1..Len(db.emails)
          /\ db.recipients[i].user_id \in 1..Len(db.users)

----------------------------------------------------------------------------
(* Claims about the recipient headers (SpecHeaders). *)

\* the strings _store_recipients passes to _parse_email_address for the To
\* header of a payload
AddressStrings(email_data) ==
    {Strip(Split(Header(email_data.headers, "to", << >>), ",")[i]) :
        i \in 1..Len(Split(Header(email_data.headers, "to", << >>), ","))}

\* an address string that is empty or holds no @
Malformed(address_str) == ~InSeq("@", address_str)

\* C21: address parsing returns (empty name, empty address) for every empty
\* or malformed address string, recipient storage creates no user row and
\* no recipient row for it, and no user row has an empty address.
C21_MalformedAddressIgnored ==
    /\ last.op = "upsert" =>
          \A a \in AddressStrings(last.payload) :
             Malformed(a) =>
                ParseEmailAddress(a) = [name |-> << >>, email |-> << >>]
    /\ \A i \in 1..Len(db.users) : ~Malformed(db.users[i].email)
    /\ \A i \in 1..Len(db.recipients) :
          /\ db.recipients[i].user_id \in 1..Len(db.users)
          /\ ~Malformed(db.users[db.recipients[i].user_id].email)

\* the distinct addresses listed in the header `kind` of a payload
Listed(email_data, kind) ==
    {ParseEmailAddress(Strip(Split(Header(email_data.headers, kind, << >>), ",")[i])).email :
        i \in 1..Len(Split(Header(email_data.headers, kind, << >>), ","))}
    \ {<< >>}

\* the recipient rows of a message for an address and a kind
RecipientRows(email_id, kind, address) ==
    {i \in 1..Len(db.recipients) :
        /\ db.recipients[i].email_id = email_id
        /\ db.recipients[i].type = kind
        /\ db.recipients[i].user_id \in 1..Len(db.users)
        /\ db.users[db.recipients[i].user_id].email = address}

\* C28: for every stored message the recipient table holds exactly one row
\* for each distinct (address, kind) of its To, Cc and Bcc headers, with kind
\* to, cc or bcc: an address listed twice in a header yields one row and the
\* Bcc addresses yield rows of kind bcc.
C28_OneRowPerAddressAndKind ==
    \A p \in HeaderPayloads :
       RowOf(db, p) # NULL =>
          \A kind \in {"to", "cc", "bcc"} :
             /\ \A a \in Listed(p, kind) :
                   Cardinality(RecipientRows(RowOf(db, p), kind, a)) = 1
             /\ \A i \in 1..Len(db.recipients) :
                   (db.recipients[i].email_id = RowOf(db, p)
                    /\ db.recipients[i].type = kind)
                   => db.users[db.recipients[i].user_id].email \in Listed(p, kind)

----------------------------------------------------------------------------
(* Claims about the user rows (Spec). *)

\* the references to users of a payload, in the order store_email makes
\* them: the sender, the To items, the Cc items
References(email_data) ==
    SelectSeq(<< Extracted[email_data].sender >>
              \o Extracted[email_data].recipients
              \o Extracted[email_data].cc,
              LAMBDA ref : ref.email # << >>)

\* the user rows with an address
UsersWith(d, address) == {i \in 1..Len(d.users) : d.users[i].email = address}

\* C30: no two user rows share an address; every non-empty address seen as
\* sender or recipient of a stored message has exactly one user row, made at
\* its first reference with the name of that reference and reused
\* afterwards; user rows are never removed.
C30_OneUserPerAddress ==
    /\ [](\A i, j \in 1..Len(db.users) :
             db.users[i].email = db.users[j].email => i = j)
    /\ [][/\ Len(db'.users) >= Len(db.users)
          /\ \A i \in 1..Len(db.users) : db'.users[i] = db.users[i]
          /\ Len(db'.emails) = Len(db.emails) + 1 =>
                \A n \in 1..Len(References(last'.payload)) :
                   /\ Cardinality(UsersWith(db', References(last'.payload)[n].email)) = 1
                   /\ (/\ UsersWith(db, References(last'.payload)[n].email) = {}
                       /\ \A m \in 1..(n - 1) :
                             References(last'.payload)[m].email #
                                References(last'.payload)[n].email)
                      => \A i \in UsersWith(db', References(last'.payload)[n].email) :
                            db'.users[i].name = References(last'.payload)[n].name]_vars

C30_Witness ==
    /\ last.op = "ingest"
    /\ last.payload = PayloadMulti
    /\ RowOf(db, PayloadMulti) = 2
    /\ RowOf(db, PayloadA) = 1
    /\ Len(db.users) = 2
    /\ db.users[2] = [email |-> Chars("b@y"), name |-> << >>]
    /\ db.emails[2].sender_id = 2
    /\ Extracted[PayloadMulti].sender.name = << "B" >>

----------------------------------------------------------------------------
(* Claims about the thread rows (Spec). *)

\* the thread rows with a provider thread id
ThreadsWith(d, thread_id) ==
    {i \in 1..Len(d.threads) : d.threads[i].thread_id = thread_id}

\* C31: there is one thread row per provider thread id; it is made by the
\* first message stored for the thread, with the subject and the snippet of
\* that message; every later message stored for the thread refreshes its
\* last_updated; a duplicate ingestion and a rolled-back one do not; thread
\* rows are never removed.
C31_OneThreadRowRefreshed ==
    /\ [](\A i, j \in 1..Len(db.threads) :
             db.threads[i].thread_id = db.threads[j].thread_id => i = j)
    /\ [][/\ Len(db'.threads) >= Len(db.threads)
          /\ \A i \in 1..Len(db.threads) :
                db'.threads[i] = [db.threads[i] EXCEPT
                                     !.last_updated = db'.threads[i].last_updated]
          /\ IF Len(db'.emails) = Len(db.emails) + 1
             THEN \A i \in ThreadsWith(db', last'.payload.threadId) :
                     /\ db'.threads[i].last_updated = now
                     /\ i > Len(db.threads) =>
                           /\ db'.threads[i].subject = Extracted[last'.payload].subject
                           /\ db'.threads[i].snippet = last'.payload.snippet
                           /\ db'.emails[Len(db'.emails)].thread_id = i
             ELSE db'.threads = db.threads]_vars

C31_Witness ==
    /\ last.op = "ingest"
    /\ last.payload = PayloadNoBody
    /\ Len(db.emails) = 2
    /\ Len(db.threads) = 1
    /\ db.threads[1].snippet = "hello"
    /\ db.threads[1].created_at = 1
    /\ db.threads[1].last_updated = 3
    /\ db.emails[2].thread_id = 1

----------------------------------------------------------------------------
(* Claims about what the pipeline indexes (Spec). *)

\* the payload has neither a text body nor an HTML body
NoBody(email_data) ==
    Extracted[email_data].body.text = "" /\ Extracted[email_data].body.html = ""

\* C32: the ingestion of a message without a text body and without an HTML
\* body stores the message, returns its row id without raising (unless a
\* statement of the write fails) and adds nothing to the vector index, its
\* metadata or its files; the ingestion of a message that is already stored
\* returns its row id and changes neither the store nor the index.
C32_NoContentNoVector ==
    [][(last'.op = "ingest" /\ ~last'.crashed) =>
          /\ (NoBody(last'.payload) /\ RowOf(db, last'.payload) = NULL) =>
                /\ last'.raised =>
                      last'.env.fault # "none" \/ last'.payload.id = NullStr
                /\ ~last'.raised =>
                      /\ RowOf(db', last'.payload) = Len(db.emails) + 1
                      /\ last'.result = RowOf(db', last'.payload)
                /\ last'.slot = NoSlot
                /\ UNCHANGED <<memVars, diskVars>>
          /\ RowOf(db, last'.payload) # NULL =>
                /\ ~last'.raised
                /\ last'.result = RowOf(db, last'.payload)
                /\ last'.slot = NoSlot
                /\ UNCHANGED <<db, memVars, diskVars>>]_vars

C32_Witness ==
    /\ last.op = "ingest"
    /\ last.payload = PayloadNoBody
    /\ last.path = "no_content"
    /\ last.result = 2
    /\ db.emails[2].message_id = "m4"
    /\ Len(index) = 1
    /\ DOMAIN metadata = {0}
    /\ metadata[0].email_id = 1

\* C33: after any sequence of ingestions and deletions from the vector
\* index, the metadata holds at most one entry for a message id.
C33_OneEntryPerMessage ==
    \A x, y \in DOMAIN metadata :
       metadata[x].email_id = metadata[y].email_id => x = y

C33_Witness ==
    /\ last.op = "ingest"
    /\ last.path = "duplicate"
    /\ last.result = 1
    /\ 1 \in removed
    /\ Len(index) = 2
    /\ DOMAIN metadata = {1}
    /\ metadata[1].email_id = 2
    /\ loadedSize = 0

\* C34: every metadata entry carries the id of a committed message row; an
\* ingestion that inserts a vector has committed the row of that message in
\* the same call, and an ingestion whose relational write is rolled back
\* inserts no vector and leaves the index and its files as they were.
C34_RowBeforeVector ==
    /\ [](\A x \in DOMAIN metadata : metadata[x].email_id \in 1..Len(db.emails))
    /\ [][last'.op = "ingest" =>
            /\ last'.slot # NoSlot =>
                  /\ ~last'.raised
                  /\ RowOf(db, last'.payload) = NULL
                  /\ RowOf(db', last'.payload) = Len(db.emails) + 1
                  /\ last'.slot \in DOMAIN metadata'
                  /\ metadata'[last'.slot].email_id = RowOf(db', last'.payload)
            /\ last'.raised =>
                  /\ db' = db
                  /\ last'.slot = NoSlot
                  /\ UNCHANGED <<memVars, diskVars>>]_vars

C34_Witness ==
    /\ last.op = "ingest"
    /\ last.payload = PayloadMulti
    /\ last.raised
    /\ last.env.fault = "commit"
    /\ Len(db.emails) = 1
    /\ db.emails[1].message_id = "m1"
    /\ DOMAIN metadata = {0}
    /\ metadata[0].email_id = 1
    /\ Len(index) = 1

\* C35: an ingestion of a message that has a row already returns at the
\* duplicate check with the id of that row, and inserts no vector; no
\* ingestion adds a metadata entry for a message that had a row before it,
\* so a message left without a vector by its first ingestion stays without.
C35_NeverIndexedLater ==
    [][last'.op = "ingest" =>
         /\ RowOf(db, last'.payload) # NULL =>
               /\ last'.path = "duplicate"
               /\ last'.result = RowOf(db, last'.payload)
               /\ last'.slot = NoSlot
               /\ UNCHANGED <<db, memVars, diskVars>>
         /\ \A m \in 1..Len(db.emails), x \in DOMAIN metadata' :
               metadata'[x].email_id = m =>
                  x \in DOMAIN metadata /\ metadata[x] = metadata'[x]]_vars

C35_Witness ==
    /\ last.op = "ingest"
    /\ last.path = "duplicate"
    /\ last.payload = PayloadA
    /\ last.result = 1
    /\ Len(db.emails) = 1
    /\ index = << >>
    /\ metadata = << >>
    /\ issued = << >>
    /\ indexFile = AbsentFile
    /\ tmpIndexFile = AbsentFile
    /\ metaFile = AbsentFile

\* what an object read from the files when it was built (no entry is
\* deleted in the two-object specification)
LoadedOf(idx, meta, size) ==
    Mem(SubSeq(idx, 1, size),
        [x \in {y \in DOMAIN meta : y < size} |-> meta[x]])

\* two objects that read the same files, each of which has inserted one
\* message since, a different one, that the files did not hold
TwoInserted ==
    /\ up
    /\ other.up
    /\ LoadedOf(index, metadata, loadedSize)
         = LoadedOf(other.index, other.metadata, other.loadedSize)
    /\ Len(issued) = 1
    /\ Len(other.issued) = 1
    /\ issued[1] \in DOMAIN metadata
    /\ other.issued[1] \in DOMAIN other.metadata
    /\ metadata[issued[1]].email_id # other.metadata[other.issued[1]].email_id
    /\ \A x \in DOMAIN metadata : x < loadedSize =>
          metadata[x].email_id \notin {metadata[issued[1]].email_id,
                                       other.metadata[other.issued[1]].email_id}

\* C36: two objects that loaded the same files and each inserted a
\* different message gave both insertions the same slot id, and when the
\* later of the two has persisted, the metadata file holds its entry at that
\* slot and no entry of the message the other inserted.
C36_SameSlotLastWins ==
    TwoInserted =>
       /\ issued[1] = other.issued[1]
       /\ issued[1] = loadedSize
       /\ (last.op = "add" /\ last.env.done = 4) =>
             /\ metaFile = Complete(metadata)
             /\ \A x \in DOMAIN metaFile.data :
                   metaFile.data[x].email_id
                      # other.metadata[other.issued[1]].email_id
       /\ (last.op = "add_other" /\ last.env.done = 4) =>
             /\ metaFile = Complete(other.metadata)
             /\ \A x \in DOMAIN metaFile.data :
                   metaFile.data[x].email_id # metadata[issued[1]].email_id

C36_Witness ==
    /\ TwoInserted
    /\ loadedSize = 1
    /\ metadata[0].email_id = 1
    /\ other.persisted
    /\ other.metadata[1].email_id = 2
    /\ last.op = "add"
    /\ last.eid = 3
    /\ last.slot = 1
    /\ last.env.done = 4
    /\ DOMAIN metaFile.data = {0, 1}
    /\ metaFile.data[1].email_id = 3

\* C37: in an object that has deleted nothing, a slot whose _save failed
\* keeps its vector and its entry in memory, and after an insertion whose
\* _save completes the files hold the index and the metadata of the object,
\* the entries of the slots whose _save failed included: a reload reads all
\* of them.
C37_UnsavedWrittenByNextSave ==
    (up /\ removed = {}) =>
       /\ \A x \in unsaved : x \in DOMAIN metadata /\ x < Len(index)
       /\ (last.op = "ingest" /\ last.slot # NoSlot /\ last.env.done = 4) =>
             /\ InitializeIndex(Disk) = Memory
             /\ \A x \in unsaved :
                   /\ x \in DOMAIN metaFile.data
                   /\ metaFile.data[x] = metadata[x]
                   /\ x < Len(indexFile.data)

C37_Witness ==
    /\ up
    /\ removed = {}
    /\ unsaved = {0}
    /\ issued = << 0, 1 >>
    /\ last.op = "ingest"
    /\ last.slot = 1
    /\ last.env.done = 4
    /\ DOMAIN metaFile.data = {0, 1}
    /\ metaFile.data[0].email_id = 1
    /\ metaFile.data[1].email_id = 2
    /\ Len(indexFile.data) = 2
    /\ InitializeIndex(Disk) = Memory

\* C38: a message id for which delete_email returned a count above 0 is
\* returned by no search, for any query and any k, of an object built
\* afterwards on the same directory.
C38_DeleteDurable ==
    up => \A m \in deleted \ removed : \A q \in Queries, k \in Ks :
             m \notin ResultIds(Search(Memory, q, k))

----------------------------------------------------------------------------
(* Claims about the calls of the vector index (SpecApi, SpecVS). *)

\* C22: delete_email(email_id) removes exactly the metadata entries whose
\* email_id is the argument, returns how many it removed (0 when none
\* match) and leaves the vectors of the index and the entries of the other
\* messages as they were.
C22_DeleteRemovesOnlyMatching ==
    [][(last'.op = "delete" /\ ~last'.crashed) =>
          /\ index' = index
          /\ DOMAIN metadata' =
                {x \in DOMAIN metadata : metadata[x].email_id # last'.eid}
          /\ \A x \in DOMAIN metadata' : metadata'[x] = metadata[x]
          /\ last'.result =
                Cardinality({x \in DOMAIN metadata :
                                metadata[x].email_id = last'.eid})]_vars

C22_Witness ==
    /\ last.op = "delete"
    /\ last.eid = 1
    /\ last.result = 2
    /\ Len(index) = 3
    /\ DOMAIN metadata = {1}
    /\ metadata[1].email_id = 2

\* C23: search(query_embedding, k) returns only message ids of slots that
\* have a metadata entry at the time of the call, each with the squared
\* Euclidean distance of its vector to the query, in the order of
\* non-decreasing distance.
C23_LiveSlotsByDistance ==
    last.op = "search" =>
        /\ Len(answer) <= last.eid
        /\ \A i \in 1..Len(answer) :
              \E x \in DOMAIN metadata :
                 /\ metadata[x].email_id = answer[i].email_id
                 /\ answer[i].score = Dist(index[x + 1], last.env.encoded.vec)
        /\ \A i, j \in 1..Len(answer) :
              i < j => answer[i].score <= answer[j].score

C23_Witness ==
    /\ last.op = "search"
    /\ last.eid = 3
    /\ Len(index) = 3
    /\ DOMAIN metadata = {1, 2}
    /\ Len(answer) = 2
    /\ answer[1].score < answer[2].score
    /\ answer[1].score = Dist(index[3], last.env.encoded.vec)
    /\ Dist(index[1], last.env.encoded.vec) = answer[2].score

\* an internal step of the search fails: the query cannot be searched for in
\* an index of dimension Dim, or k is not positive
SearchFails == Len(last.env.encoded.vec) # Dim \/ last.eid <= 0

\* C24: search never raises, and returns the empty list whenever an
\* internal step fails.
C24_SearchFailureGivesEmpty ==
    last.op = "search" =>
        /\ ~last.raised
        /\ SearchFails => answer = << >>

C24_Witness ==
    /\ last.op = "search"
    /\ SearchFails
    /\ last.eid = MaxK
    /\ last.env.encoded.vec = << >>
    /\ DOMAIN metadata = {0, 1, 2}
    /\ ~last.raised
    /\ answer = << >>

----------------------------------------------------------------------------
(* Claims about the embedding adapter (SpecRead). *)

\* C25: the vector get_embedding returns has exactly as many components as
\* the dimension of the vector index, when the model answers and when it
\* raises; in the second case it is the all-zero vector of that dimension
\* and the caller sees no exception (the search that uses it is not refused
\* by the index).
C25_EmbeddingHasIndexDimension ==
    last.op \in {"ingest", "hybrid"} =>
        /\ Len(GetEmbedding(last.env.encoded)) = Dim
        /\ ~last.env.encoded.ok => GetEmbedding(last.env.encoded) = Zeros(Dim)
        /\ last.op = "hybrid" =>
              ~SearchTry(Memory, GetEmbedding(last.env.encoded),
                         last.eid * 2).raised

C25_Witness ==
    /\ last.op = "hybrid"
    /\ ~last.env.encoded.ok
    /\ ~last.raised
    /\ Len(index) = 2
    /\ Len(SemanticIds(last.env.encoded, last.eid)) = 2
    /\ Len(answer) = 2

----------------------------------------------------------------------------
(* Claims about crashes of the persistence step (SpecVS). *)

\* the call that ended in this state is an insertion that the end of the
\* process interrupted inside _save
CrashedInSave ==
    last.op = "ingest" /\ last.crashed /\ last.env.stop = "in_save"

\* C26: when the process ends at any point of the persistence step of an
\* insertion, the store reloaded afterwards has every metadata key smaller
\* than the size of the index (the index may be ahead, never behind), no
\* search returns a message id of a slot without a metadata entry, and the
\* next insertion gets a slot id that is the key of no metadata entry.
C26_IndexNeverBehindAfterCrash ==
    [][/\ (CrashedInSave /\ last'.op = "restart") =>
              /\ \A x \in DOMAIN metadata' : x < Len(index')
              /\ \A q \in Queries, k \in Ks :
                    \A i \in 1..Len(Search(Mem(index', metadata'), q, k)) :
                       \E x \in DOMAIN metadata' :
                          metadata'[x].email_id =
                             Search(Mem(index', metadata'), q, k)[i].email_id
       /\ (last'.op = "ingest" /\ last'.slot # NoSlot /\ loadedSize > 0) =>
              last'.slot \notin DOMAIN metadata]_vars

----------------------------------------------------------------------------
(* Claims about body extraction (SpecBodies). *)

RECURSIVE Flatten(_)
\* the parts without parts of a list of parts, in document order
Flatten(parts) ==
    IF parts = << >> THEN << >>
    ELSE (IF Head(parts).hasParts THEN Flatten(Head(parts).parts)
          ELSE << Head(parts) >>)
         \o Flatten(Tail(parts))

\* the content of the first part of the given type that has data, in
\* document order, "" when there is none
FirstOfType(payload, mime) ==
    Bind(SelectSeq(Flatten(payload.parts),
                   LAMBDA part : part.mimeType = mime /\ part.hasData),
         LAMBDA found :
        IF found = << >> THEN "" ELSE B64Decode(found[1].data))

\* C27: for a payload with parts, nested or not, the text body stored is the
\* first text/plain part in document order and the HTML body the first
\* text/html part in document order; a later part of the same type never
\* replaces an earlier one.
C27_FirstPartOfEachType ==
    \A p \in BodyPayloads :
       RowOf(db, p) # NULL =>
          /\ db.emails[RowOf(db, p)].body_text = FirstOfType(p.payload, "text/plain")
          /\ db.emails[RowOf(db, p)].body_html = FirstOfType(p.payload, "text/html")

----------------------------------------------------------------------------
(* Claims about vectors with components that are not finite (SpecNumeric). *)

\* the vector with 0 in the place of every component that is not finite
ZeroNonFinite(v) ==
    [i \in 1..Len(v) |-> IF v[i] \in {NaN, PosInf, NegInf} THEN 0 ELSE v[i]]

\* C29: add_email replaces every component that is not finite (NaN, +Inf,
\* -Inf) by zero before it resizes and normalizes the vector, and does not
\* reject the vector.
C29_NonFiniteBecomesZero ==
    [][(last'.op = "add" /\ last'.env.encoded.vec # << >>) =>
          /\ last'.slot = Len(index)
          /\ Len(index') = Len(index) + 1
          /\ index'[Len(index')] =
                Normalize(FirstD(ZeroNonFinite(last'.env.encoded.vec)))]_vars
====
